---- MODULE Spec2Model ----
(***************************************************************************)
(* Model of the next-crud application: the card-limit hook (useCardLimit + *)
(* CardLimitDomain), the global toast (ToastProvider + ToastContainer +    *)
(* Toast), the mock FAQ API routes (GET /api/faqs and GET /api/faqs/[id]), *)
(* and the hooks useAsync / useFAQs, useDebounce and useLocalStorage with  *)
(* the FavoritesProvider built on it.                                      *)
(*                                                                         *)
(* JavaScript numbers are records [nan, v]: NaN is [nan |-> TRUE], every   *)
(* other number holds its value v in centavos (1 real = 100), so that the  *)
(* two-decimal amounts of the application are exact integers.              *)
(* JavaScript strings are sequences of UTF-16 code units.                  *)
(*                                                                         *)
(* Each part has its own specification; the variables of the other parts   *)
(* stay at their initial values in it.  Where a handler can run several    *)
(* times before React renders (useAsync, useLocalStorage) the render is a  *)
(* step of its own; elsewhere setState, the render and its effects are one *)
(* step with the handler.                                                  *)
(***************************************************************************)
EXTENDS Integers, Sequences, FiniteSets

VARIABLES
    options,      \* useCardLimit: the options the hook was called with
    state,        \* useCardLimit: the CardLimitState held by useReducer
    lastAction,   \* useCardLimit: the CardLimitAction dispatched last
    providerProps,\* ToastProvider: defaultPosition and defaultDuration
    toastState,   \* ToastProvider: the ToastState held by useState
    toast,        \* the Toast instance rendered by ToastContainer
    toastEvent,   \* the toast operation that ran last
    nodeEnv,      \* process.env.NODE_ENV of the API server
    mockFaqs,     \* the MOCK_FAQS array: references to the FAQ objects, in order
    pending,      \* GET /api/faqs: responses waiting for their setTimeout
    response,     \* the API routes: the response to the last request, once sent
    asyncCaller,  \* useAsync: the hook the component calls and how it calls it
    asyncPhase,   \* useAsync: "initial", "mounted" or "unmounted" component
    asyncState,   \* useAsync: the AsyncState held by useState
    isMountedRef, \* useAsync: isMountedRef.current
    executionCountRef, \* useAsync: executionCountRef.current
    inFlight,     \* useAsync: the executions awaiting asyncFunction
    renderPending,\* useAsync: a render of the component is scheduled
    depsChanged,  \* useAsync: the caller gave new filters since the last render
    asyncEvent,   \* useAsync: the operation that ran last
    debouncePhase,\* FAQSearch: "initial", "mounted" or "unmounted" component
    localValue,   \* FAQSearch: localValue, the value given to useDebounce
    delay,        \* useDebounce: the delay given to the hook
    debouncedValue, \* useDebounce: the debouncedValue held by useState
    timers,       \* useDebounce: the setTimeout handlers not yet run or cleared
    heldFor,      \* time since localValue last changed, in ms
    changes,      \* how many times the input of useDebounce has changed
    openTabs,     \* the browser tabs that show the app
    localStorage, \* the text stored under 'faq-favorites', <<>> when none
    storedValue,  \* useLocalStorage: per tab, storedValue as last rendered
    reactState,   \* useLocalStorage: per tab, the value last given to setStoredValue
    storageEvents,\* per tab, the storage events not yet delivered to it
    favEvent,     \* the favorites operation that ran last
    homeEvent,    \* Home: the handler of the page that ran last, and a bit
                  \* that each run of a handler flips
    legacyToast,  \* the first Home page: the toast held by its useToast hook
    sinceHidden   \* the first Home page: ms since isVisible last turned false

cardVars == <<options, state, lastAction>>

toastVars == <<providerProps, toastState, toast, toastEvent>>

faqVars == <<nodeEnv, mockFaqs, pending, response>>

asyncVars ==
    <<asyncCaller, asyncPhase, asyncState, isMountedRef, executionCountRef,
      inFlight, renderPending, depsChanged, asyncEvent>>

debounceVars ==
    <<debouncePhase, localValue, delay, debouncedValue, timers, heldFor, changes>>

storageVars ==
    <<openTabs, localStorage, storedValue, reactState, storageEvents, favEvent>>

pageVars == <<homeEvent, legacyToast, sinceHidden>>

hookVars == <<asyncVars, debounceVars, storageVars, pageVars>>

notAsyncVars == <<cardVars, toastVars, faqVars, debounceVars, storageVars, pageVars>>

notDebounceVars == <<cardVars, toastVars, faqVars, asyncVars, storageVars, pageVars>>

notStorageVars == <<cardVars, toastVars, faqVars, asyncVars, debounceVars, pageVars>>

\* what the pages leave alone: the API server and the hooks of the FAQ screens
notPageVars == <<faqVars, asyncVars, debounceVars, storageVars>>

vars ==
    <<options, state, lastAction, providerProps, toastState, toast, toastEvent,
      nodeEnv, mockFaqs, pending, response, hookVars>>

----------------------------------------------------------------------------
(* JavaScript numbers *)

NaN == [nan |-> TRUE, v |-> 0]

Cents(n) == [nan |-> FALSE, v |-> n]

Reais(n) == Cents(n * 100)

IsNaN(x) == x.nan

\* x < y, x > y, x <= y, x >= y: every comparison with NaN is false
Lt(x, y) == ~x.nan /\ ~y.nan /\ x.v < y.v

Gt(x, y) == ~x.nan /\ ~y.nan /\ x.v > y.v

Le(x, y) == ~x.nan /\ ~y.nan /\ x.v <= y.v

Ge(x, y) == ~x.nan /\ ~y.nan /\ x.v >= y.v

\* x - y
Sub(x, y) == IF x.nan \/ y.nan THEN NaN ELSE Cents(x.v - y.v)

----------------------------------------------------------------------------
(* JavaScript strings: sequences of code units *)

Zero == 48      \* "0"

IsDigit(c) == c >= Zero /\ c <= Zero + 9

\* s.replace(/\D/g, '')
RECURSIVE extractDigits(_)
extractDigits(s) ==
    IF s = <<>> THEN <<>>
    ELSE IF IsDigit(Head(s)) THEN <<Head(s)>> \o extractDigits(Tail(s))
    ELSE extractDigits(Tail(s))

\* s.padStart(n, '0')
RECURSIVE padStart(_, _)
padStart(s, n) == IF Len(s) >= n THEN s ELSE padStart(<<Zero>> \o s, n)

\* Number(d) of a string of decimal digits (no sign, no point)
RECURSIVE DigitsValue(_)
DigitsValue(d) ==
    IF d = <<>> THEN 0
    ELSE DigitsValue(SubSeq(d, 1, Len(d) - 1)) * 10 + (d[Len(d)] - Zero)

\* String(n) of an integer n
RECURSIVE NatToString(_)
NatToString(n) ==
    IF n < 10 THEN <<Zero + n>> ELSE NatToString(n \div 10) \o <<Zero + (n % 10)>>

Minus == 45     \* "-"

StringOf(n) == IF n < 0 THEN <<Minus>> \o NatToString(-n) ELSE NatToString(n)

\* digitsToReais: the int part and the two decimals, read as one number
digitsToReais(digits) ==
    IF digits = <<>> THEN Cents(0)
    ELSE LET padded == padStart(digits, 3)
             intPart == SubSeq(padded, 1, Len(padded) - 2)
             decimalPart == SubSeq(padded, Len(padded) - 1, Len(padded))
         IN  Cents(DigitsValue(intPart) * 100 + DigitsValue(decimalPart))

----------------------------------------------------------------------------
(* CardLimitDomain *)

DEFAULT_MAX == 50000

\* CardLimitDomain.create
create(usedAmount) ==
    [currentLimit |-> usedAmount,
     usedAmount |-> usedAmount,
     availableAmount |-> Cents(0),
     minAllowedLimit |-> usedAmount,
     maxAllowedLimit |-> Reais(DEFAULT_MAX)]

\* canUpdateTo with the bounds excluded
canUpdateTo_Exclusive(limit, newAmount) ==
    /\ Gt(newAmount, limit.minAllowedLimit)
    /\ Lt(newAmount, limit.maxAllowedLimit)
    /\ ~IsNaN(newAmount)

\* CardLimitDomain.canUpdateTo
canUpdateTo(limit, newAmount) ==
    /\ Ge(newAmount, limit.minAllowedLimit)
    /\ Le(newAmount, limit.maxAllowedLimit)
    /\ ~IsNaN(newAmount)

\* withNewLimit that keeps the old availableAmount
withNewLimit_StaleAvailable(limit, newAmount) ==
    [limit EXCEPT !.currentLimit = newAmount]

\* CardLimitDomain.withNewLimit
withNewLimit(limit, newAmount) ==
    [limit EXCEPT !.currentLimit = newAmount,
                  !.availableAmount = Sub(newAmount, limit.usedAmount)]

\* validateLimit's results: null, or one of the three messages; the two
\* range messages carry the amount they print
Null == [msg |-> "null", amount |-> Cents(0)]

NonNumeric == [msg |-> "Digite um valor numerico valido", amount |-> Cents(0)]

BelowMinimum(used) ==
    [msg |-> "O novo limite deve ser maior ou igual ao usado", amount |-> used]

AboveMaximum(max) ==
    [msg |-> "O limite nao pode ser maior que", amount |-> max]

\* validateLimit that rejects the used amount itself
validateLimit_MinExclusive(limit, newAmount) ==
    IF IsNaN(newAmount) THEN NonNumeric
    ELSE IF Le(newAmount, limit.minAllowedLimit) THEN BelowMinimum(limit.usedAmount)
    ELSE IF Gt(newAmount, limit.maxAllowedLimit) THEN AboveMaximum(limit.maxAllowedLimit)
    ELSE Null

\* validateLimit that tests the maximum before the minimum
validateLimit_MaxFirst(limit, newAmount) ==
    IF IsNaN(newAmount) THEN NonNumeric
    ELSE IF Gt(newAmount, limit.maxAllowedLimit) THEN AboveMaximum(limit.maxAllowedLimit)
    ELSE IF Lt(newAmount, limit.minAllowedLimit) THEN BelowMinimum(limit.usedAmount)
    ELSE Null

\* validateLimit that tests against create's maximum, not the record's
validateLimit_DefaultMax(limit, newAmount) ==
    IF IsNaN(newAmount) THEN NonNumeric
    ELSE IF Lt(newAmount, limit.minAllowedLimit) THEN BelowMinimum(limit.usedAmount)
    ELSE IF Gt(newAmount, Reais(DEFAULT_MAX)) THEN AboveMaximum(limit.maxAllowedLimit)
    ELSE Null

\* CardLimitDomain.validateLimit
validateLimit(limit, newAmount) ==
    IF IsNaN(newAmount) THEN NonNumeric
    ELSE IF Lt(newAmount, limit.minAllowedLimit) THEN BelowMinimum(limit.usedAmount)
    ELSE IF Gt(newAmount, limit.maxAllowedLimit) THEN AboveMaximum(limit.maxAllowedLimit)
    ELSE Null

----------------------------------------------------------------------------
(* useCardLimit *)

\* SET_INPUT that validates the previous numericValue
ReduceSetInput_StaleValidate(s, payload) ==
    LET digits == extractDigits(payload)
        numeric == digitsToReais(digits)
    IN  [s EXCEPT !.inputValue = digits,
                  !.numericValue = numeric,
                  !.isDirty = TRUE,
                  !.validationError = validateLimit(s.limit, s.numericValue)]

\* cardLimitReducer, case SET_INPUT
ReduceSetInput(s, payload) ==
    LET digits == extractDigits(payload)
        numeric == digitsToReais(digits)
    IN  [s EXCEPT !.inputValue = digits,
                  !.numericValue = numeric,
                  !.isDirty = TRUE,
                  !.validationError = validateLimit(s.limit, numeric)]

\* cardLimitReducer, case VALIDATE
ReduceValidate(s) ==
    [s EXCEPT !.validationError = validateLimit(s.limit, s.numericValue)]

\* RESET that goes back to the current limit
ReduceReset_ToCurrentLimit(s) ==
    [s EXCEPT !.inputValue = StringOf(s.limit.currentLimit.v),
              !.numericValue = s.limit.currentLimit,
              !.validationError = Null,
              !.isDirty = FALSE]

\* cardLimitReducer, case RESET: usedAmount * 100 is the amount in centavos
ReduceReset(s) ==
    [s EXCEPT !.inputValue = StringOf(s.limit.usedAmount.v),
              !.numericValue = s.limit.usedAmount,
              !.validationError = Null,
              !.isDirty = FALSE]

\* cardLimitReducer, case COMMIT_CHANGE
ReduceCommitChange(s, payload) ==
    [s EXCEPT !.limit = withNewLimit(s.limit, payload),
              !.validationError = Null,
              !.isDirty = FALSE]

cardLimitReducer(s, action) ==
    CASE action.type = "SET_INPUT" -> ReduceSetInput(s, action.text)
      [] action.type = "VALIDATE" -> ReduceValidate(s)
      [] action.type = "RESET" -> ReduceReset(s)
      [] action.type = "COMMIT_CHANGE" -> ReduceCommitChange(s, action.amount)
      [] OTHER -> s

DEFAULT_USED == 4000

\* an option is {} when the caller leaves it out, {x} when it is given
OptionOr(opt, default) == IF opt = {} THEN default ELSE CHOOSE x \in opt : TRUE

\* useCardLimit: initialState
initialState(opts) ==
    LET initialUsedAmount == OptionOr(opts.initialUsedAmount, Reais(DEFAULT_USED))
        maxLimit == OptionOr(opts.maxLimit, Reais(DEFAULT_MAX))
        initialLimit == create(initialUsedAmount)
    IN  [limit |-> [initialLimit EXCEPT !.maxAllowedLimit = maxLimit],
         inputValue |-> StringOf(initialUsedAmount.v),
         numericValue |-> initialUsedAmount,
         validationError |-> Null,
         isDirty |-> FALSE]

\* useCardLimit: canSave
canSave ==
    /\ state.isDirty
    /\ state.validationError = Null
    /\ canUpdateTo(state.limit, state.numericValue)

----------------------------------------------------------------------------
(* Inputs *)

MaxLen == 3     \* longest string given to setInputValue

\* "0", "5" and "x", a character that is no digit
Chars == {Zero, Zero + 5, 120}

RECURSIVE StringsOfLen(_)
StringsOfLen(n) ==
    IF n = 0 THEN {<<>>}
    ELSE {s \o <<c>> : s \in StringsOfLen(n - 1), c \in Chars}

InputStrings == UNION {StringsOfLen(n) : n \in 0..MaxLen}

\* initialUsedAmount and maxLimit given to the hook: R$ 0,50 and R$ 5,00
OptionAmounts == {Cents(50), Reais(5)}

\* each option left out ({}) or given ({x})
HookOptions ==
    {[initialUsedAmount |-> u, maxLimit |-> m] :
        u \in {{}} \cup {{a} : a \in OptionAmounts},
        m \in {{}} \cup {{a} : a \in OptionAmounts}}

\* amounts passed to commitChange and to the validator
Amounts == {NaN, Cents(5), Cents(50), Cents(55), Reais(5), Cents(505)}

NoAction == [type |-> "NONE", text |-> <<>>, amount |-> Cents(0)]

SetInputAction(s) == [type |-> "SET_INPUT", text |-> s, amount |-> Cents(0)]

ValidateAction == [type |-> "VALIDATE", text |-> <<>>, amount |-> Cents(0)]

ResetAction == [type |-> "RESET", text |-> <<>>, amount |-> Cents(0)]

CommitChangeAction(a) == [type |-> "COMMIT_CHANGE", text |-> <<>>, amount |-> a]

----------------------------------------------------------------------------
(* The hook as a state machine *)

\* the hook after its first render under the options opts
InitCard(opts) ==
    /\ options = opts
    /\ state = initialState(options)
    /\ lastAction = NoAction

\* dispatch of one action through useReducer
Dispatched(action) ==
    /\ state' = cardLimitReducer(state, action)
    /\ lastAction' = action

setInputValue(value) ==
    /\ Dispatched(SetInputAction(value))
    /\ UNCHANGED <<options, toastVars, faqVars, hookVars>>

validate ==
    /\ Dispatched(ValidateAction)
    /\ UNCHANGED <<options, toastVars, faqVars, hookVars>>

reset ==
    /\ Dispatched(ResetAction)
    /\ UNCHANGED <<options, toastVars, faqVars, hookVars>>

commitChange(newAmount) ==
    /\ Dispatched(CommitChangeAction(newAmount))
    /\ UNCHANGED <<options, toastVars, faqVars, hookVars>>

NextCard ==
    \/ \E value \in InputStrings : setInputValue(value)
    \/ validate
    \/ reset
    \/ \E newAmount \in Amounts : commitChange(newAmount)

----------------------------------------------------------------------------
(* ToastProvider, ToastContainer and Toast *)

DEFAULT_DURATION == 4000

ANIM_DURATION == 320

NoTimer == -1

Hidden ==
    [status |-> "hidden", message |-> "", type |-> "", position |-> "",
     duration |-> 0]

\* the state show() sets
Visible(message, type, position) ==
    [status |-> "visible", message |-> message, type |-> type,
     position |-> position, duration |-> providerProps.defaultDuration]

\* no Toast instance in the tree
NoToast ==
    [alive |-> FALSE,
     props |-> [message |-> "", type |-> "", position |-> "",
                isVisible |-> FALSE, duration |-> 0],
     mounted |-> FALSE, exiting |-> FALSE, deps |-> <<>>,
     autoHideTimer |-> NoTimer, unmountTimer |-> NoTimer]

\* first render of Toast: useState(isVisible), useState(false)
MountToast(props) ==
    [alive |-> TRUE, props |-> props, mounted |-> props.isVisible,
     exiting |-> FALSE, deps |-> <<>>,
     autoHideTimer |-> NoTimer, unmountTimer |-> NoTimer]

\* the effect's dependencies [isVisible, duration, onClose, mounted]; onClose
\* is hide, which useCallback keeps the same
EffectDeps(inst) == <<inst.props.isVisible, inst.props.duration, inst.mounted>>

\* the cleanup of the previous run of the effect, then the effect
ToastEffect(inst) ==
    LET cleaned == [inst EXCEPT !.autoHideTimer = NoTimer,
                                !.unmountTimer = NoTimer,
                                !.deps = EffectDeps(inst)]
    IN  IF inst.props.isVisible
        THEN [cleaned EXCEPT !.mounted = TRUE,
                             !.exiting = FALSE,
                             !.autoHideTimer =
                                 IF inst.props.duration > 0
                                 THEN inst.props.duration ELSE NoTimer]
        ELSE IF inst.mounted
        THEN [cleaned EXCEPT !.exiting = TRUE,
                             !.unmountTimer = ANIM_DURATION]
        ELSE cleaned

\* commit of a render of Toast: the effect runs when a dependency changed,
\* and a state change made by the effect renders again
RECURSIVE CommitToast(_)
CommitToast(inst) ==
    IF EffectDeps(inst) # inst.deps THEN CommitToast(ToastEffect(inst)) ELSE inst

\* ToastContainer: nothing when hidden (the Toast unmounts and its cleanup
\* clears the timers), otherwise the Toast with the state's fields
ToastContainer(st, inst) ==
    IF st.status = "hidden" THEN NoToast
    ELSE LET props == [message |-> st.message, type |-> st.type,
                       position |-> st.position,
                       isVisible |-> st.status = "visible",
                       duration |-> st.duration]
         IN  IF inst.alive THEN CommitToast([inst EXCEPT !.props = props])
             ELSE CommitToast(MountToast(props))

\* setState of the provider and the render that follows: React renders the
\* update and runs the effects before the next event or timer is handled
SetToastState(st) ==
    /\ toastState' = st
    /\ toast' = ToastContainer(st, toast)
    /\ UNCHANGED providerProps

Messages == {"Limite atualizado", "Alteracao cancelada"}

ToastTypes == {"success", "error", "warning", "info"}

Positions == {"top", "bottom"}

\* a position argument: left out ({}) or given ({p})
PositionArgs == {{}} \cup {{p} : p \in Positions}

\* ms of time that pass in one step
Tick == 1000

\* defaultDuration given to ToastProvider
ProviderDurations == {0, 2 * Tick, DEFAULT_DURATION}

\* the provider after its first render under the props given
InitToast(props) ==
    /\ providerProps = props
    /\ toastState = Hidden
    /\ toast = NoToast
    /\ toastEvent = "none"

\* show(message, type = 'info', position = defaultPosition)
show(message, type, position) ==
    /\ SetToastState(Visible(message, OptionOr(type, "info"),
                             OptionOr(position, providerProps.defaultPosition)))
    /\ toastEvent' = "show"
    /\ UNCHANGED <<cardVars, faqVars, hookVars>>

hide ==
    /\ SetToastState(Hidden)
    /\ toastEvent' = "hide"
    /\ UNCHANGED <<cardVars, faqVars, hookVars>>

success(message, position) ==
    /\ SetToastState(Visible(message, "success",
                             OptionOr(position, providerProps.defaultPosition)))
    /\ toastEvent' = "show"
    /\ UNCHANGED <<cardVars, faqVars, hookVars>>

error(message, position) ==
    /\ SetToastState(Visible(message, "error",
                             OptionOr(position, providerProps.defaultPosition)))
    /\ toastEvent' = "show"
    /\ UNCHANGED <<cardVars, faqVars, hookVars>>

warning(message, position) ==
    /\ SetToastState(Visible(message, "warning",
                             OptionOr(position, providerProps.defaultPosition)))
    /\ toastEvent' = "show"
    /\ UNCHANGED <<cardVars, faqVars, hookVars>>

info(message, position) ==
    /\ SetToastState(Visible(message, "info",
                             OptionOr(position, providerProps.defaultPosition)))
    /\ toastEvent' = "show"
    /\ UNCHANGED <<cardVars, faqVars, hookVars>>

PendingTimers ==
    {x \in {toast.autoHideTimer, toast.unmountTimer} : x # NoTimer}

Min(S) == CHOOSE x \in S : \A y \in S : x <= y

\* time passes, up to the next timer that is due
Advance(ms) ==
    /\ PendingTimers # {}
    /\ Min(PendingTimers) > 0
    /\ LET d == IF ms < Min(PendingTimers) THEN ms ELSE Min(PendingTimers)
       IN  toast' = [toast EXCEPT
                       !.autoHideTimer = IF @ = NoTimer THEN @ ELSE @ - d,
                       !.unmountTimer = IF @ = NoTimer THEN @ ELSE @ - d]
    /\ toastEvent' = "advance"
    /\ UNCHANGED <<providerProps, toastState, cardVars, faqVars, hookVars>>

\* only the Toast is told to go, the provider's state stays
AutoHideFires_LocalOnly ==
    /\ toast.autoHideTimer = 0
    /\ toast' = [toast EXCEPT !.autoHideTimer = NoTimer, !.mounted = FALSE]
    /\ toastEvent' = "autoHide"
    /\ UNCHANGED <<providerProps, toastState, cardVars, faqVars, hookVars>>

\* the auto-hide timer of the Toast is due: setTimeout(() => onClose(), duration),
\* and onClose is the provider's hide
AutoHideFires ==
    /\ toast.autoHideTimer = 0
    /\ SetToastState(Hidden)
    /\ toastEvent' = "autoHide"
    /\ UNCHANGED <<cardVars, faqVars, hookVars>>

NextToast ==
    \/ \E m \in Messages, t \in {{}} \cup {{x} : x \in ToastTypes},
          p \in PositionArgs : show(m, t, p)
    \/ hide
    \/ \E m \in Messages, p \in PositionArgs : success(m, p)
    \/ \E m \in Messages, p \in PositionArgs : error(m, p)
    \/ \E m \in Messages, p \in PositionArgs : warning(m, p)
    \/ \E m \in Messages, p \in PositionArgs : info(m, p)
    \/ \E ms \in {ANIM_DURATION, Tick} : Advance(ms)
    \/ AutoHideFires

----------------------------------------------------------------------------
(* The mock FAQ data and GET /api/faqs *)

\* MOCK_FAQS: the five FAQ objects, strings as code units, dates as the
\* seconds that new Date(...).getTime() counts in milliseconds
FAQS ==
    <<
      \* faq-1: Como aumentar o limite do meu cartao?
      [id |-> "faq-1",
       question |->
         <<67, 111, 109, 111, 32, 97, 117, 109, 101, 110, 116, 97, 114, 32,
           111, 32, 108, 105, 109, 105, 116, 101, 32, 100, 111, 32, 109,
           101, 117, 32, 99, 97, 114, 116, 227, 111, 63>>,
       answer |->
         <<80, 97, 114, 97, 32, 97, 117, 109, 101, 110, 116, 97, 114, 32,
           111, 32, 108, 105, 109, 105, 116, 101, 32, 100, 111, 32, 115,
           101, 117, 32, 99, 97, 114, 116, 227, 111, 44, 32, 118, 111, 99,
           234, 32, 112, 111, 100, 101, 58, 10, 10, 49, 46, 32, 42, 42, 85,
           115, 97, 114, 32, 97, 32, 102, 117, 110, 99, 105, 111, 110, 97,
           108, 105, 100, 97, 100, 101, 32, 100, 101, 32, 97, 117, 109, 101,
           110, 116, 111, 32, 110, 97, 32, 116, 101, 108, 97, 32, 105, 110,
           105, 99, 105, 97, 108, 42, 42, 10, 32, 32, 32, 45, 32, 65, 99,
           101, 115, 115, 101, 32, 97, 32, 116, 101, 108, 97, 32, 100, 101,
           32, 34, 76, 105, 109, 105, 116, 101, 34, 32, 110, 111, 32, 97,
           112, 112, 10, 32, 32, 32, 45, 32, 68, 101, 102, 105, 110, 97, 32,
           111, 32, 110, 111, 118, 111, 32, 118, 97, 108, 111, 114, 32, 100,
           101, 115, 101, 106, 97, 100, 111, 10, 32, 32, 32, 45, 32, 67,
           111, 110, 102, 105, 114, 109, 101, 32, 97, 32, 115, 111, 108,
           105, 99, 105, 116, 97, 231, 227, 111, 10, 10, 50, 46, 32, 42, 42,
           67, 114, 105, 116, 233, 114, 105, 111, 115, 32, 112, 97, 114, 97,
           32, 97, 112, 114, 111, 118, 97, 231, 227, 111, 58, 42, 42, 10,
           32, 32, 32, 45, 32, 72, 105, 115, 116, 243, 114, 105, 99, 111,
           32, 100, 101, 32, 112, 97, 103, 97, 109, 101, 110, 116, 111, 115,
           32, 101, 109, 32, 100, 105, 97, 10, 32, 32, 32, 45, 32, 76, 105,
           109, 105, 116, 101, 32, 97, 110, 116, 101, 114, 105, 111, 114,
           32, 117, 116, 105, 108, 105, 122, 97, 100, 111, 32, 97, 100, 101,
           113, 117, 97, 100, 97, 109, 101, 110, 116, 101, 10, 32, 32, 32,
           45, 32, 84, 101, 109, 112, 111, 32, 109, 237, 110, 105, 109, 111,
           32, 100, 101, 32, 54, 32, 109, 101, 115, 101, 115, 32, 99, 111,
           109, 32, 111, 32, 99, 97, 114, 116, 227, 111, 10, 10, 51, 46, 32,
           42, 42, 84, 101, 109, 112, 111, 32, 100, 101, 32, 97, 110, 225,
           108, 105, 115, 101, 58, 42, 42, 10, 32, 32, 32, 45, 32, 65, 32,
           97, 110, 225, 108, 105, 115, 101, 32, 233, 32, 102, 101, 105,
           116, 97, 32, 97, 117, 116, 111, 109, 97, 116, 105, 99, 97, 109,
           101, 110, 116, 101, 10, 32, 32, 32, 45, 32, 82, 101, 115, 112,
           111, 115, 116, 97, 32, 101, 109, 32, 97, 116, 233, 32, 52, 56,
           32, 104, 111, 114, 97, 115, 32, 250, 116, 101, 105, 115, 10, 32,
           32, 32, 45, 32, 86, 111, 99, 234, 32, 114, 101, 99, 101, 98, 101,
           114, 225, 32, 110, 111, 116, 105, 102, 105, 99, 97, 231, 227,
           111, 32, 110, 111, 32, 97, 112, 112, 10, 10, 42, 42, 68, 105, 99,
           97, 58, 42, 42, 32, 77, 97, 110, 116, 101, 114, 32, 117, 109, 32,
           98, 111, 109, 32, 115, 99, 111, 114, 101, 32, 100, 101, 32, 99,
           114, 233, 100, 105, 116, 111, 32, 97, 117, 109, 101, 110, 116,
           97, 32, 115, 117, 97, 115, 32, 99, 104, 97, 110, 99, 101, 115,
           32, 100, 101, 32, 97, 112, 114, 111, 118, 97, 231, 227, 111, 46>>,
       category |-> "limits",
       tags |-> <<
         \* limite
         <<108, 105, 109, 105, 116, 101>>,
         \* aumentar
         <<97, 117, 109, 101, 110, 116, 97, 114>>,
         \* cartao
         <<99, 97, 114, 116, 227, 111>>,
         \* credito
         <<99, 114, 233, 100, 105, 116, 111>>,
         \* aprovacao
         <<97, 112, 114, 111, 118, 97, 231, 227, 111>>>>,
       helpfulCount |-> 234,
       createdAt |-> 1705312800,    \* 2024-01-15T10:00:00Z
       updatedAt |-> 1732116600]    \* 2024-11-20T15:30:00Z
      ,
      \* faq-2: Qual o limite minimo e maximo que posso solicitar?
      [id |-> "faq-2",
       question |->
         <<81, 117, 97, 108, 32, 111, 32, 108, 105, 109, 105, 116, 101, 32,
           109, 237, 110, 105, 109, 111, 32, 101, 32, 109, 225, 120, 105,
           109, 111, 32, 113, 117, 101, 32, 112, 111, 115, 115, 111, 32,
           115, 111, 108, 105, 99, 105, 116, 97, 114, 63>>,
       answer |->
         <<79, 115, 32, 108, 105, 109, 105, 116, 101, 115, 32, 118, 97, 114,
           105, 97, 109, 32, 100, 101, 32, 97, 99, 111, 114, 100, 111, 32,
           99, 111, 109, 32, 115, 101, 117, 32, 112, 101, 114, 102, 105,
           108, 58, 10, 10, 42, 42, 76, 105, 109, 105, 116, 101, 32, 77,
           237, 110, 105, 109, 111, 58, 42, 42, 10, 45, 32, 82, 36, 32, 53,
           48, 48, 44, 48, 48, 32, 112, 97, 114, 97, 32, 110, 111, 118, 111,
           115, 32, 99, 108, 105, 101, 110, 116, 101, 115, 10, 45, 32, 82,
           36, 32, 49, 46, 48, 48, 48, 44, 48, 48, 32, 112, 97, 114, 97, 32,
           99, 108, 105, 101, 110, 116, 101, 115, 32, 99, 111, 109, 32, 109,
           97, 105, 115, 32, 100, 101, 32, 54, 32, 109, 101, 115, 101, 115,
           10, 10, 42, 42, 76, 105, 109, 105, 116, 101, 32, 77, 225, 120,
           105, 109, 111, 58, 42, 42, 10, 45, 32, 65, 116, 233, 32, 82, 36,
           32, 53, 48, 46, 48, 48, 48, 44, 48, 48, 32, 112, 97, 114, 97, 32,
           112, 101, 115, 115, 111, 97, 32, 102, 237, 115, 105, 99, 97, 10,
           45, 32, 65, 110, 225, 108, 105, 115, 101, 32, 98, 97, 115, 101,
           97, 100, 97, 32, 101, 109, 32, 114, 101, 110, 100, 97, 32, 101,
           32, 104, 105, 115, 116, 243, 114, 105, 99, 111, 10, 45, 32, 80,
           111, 100, 101, 32, 115, 101, 114, 32, 109, 97, 105, 111, 114, 32,
           112, 97, 114, 97, 32, 99, 108, 105, 101, 110, 116, 101, 115, 32,
           112, 114, 101, 109, 105, 117, 109, 10, 10, 42, 42, 67, 111, 109,
           111, 32, 97, 117, 109, 101, 110, 116, 97, 114, 32, 115, 101, 117,
           32, 108, 105, 109, 105, 116, 101, 32, 109, 225, 120, 105, 109,
           111, 58, 42, 42, 10, 45, 32, 77, 97, 110, 116, 101, 110, 104, 97,
           32, 98, 111, 109, 32, 104, 105, 115, 116, 243, 114, 105, 99, 111,
           32, 100, 101, 32, 112, 97, 103, 97, 109, 101, 110, 116, 111, 115,
           10, 45, 32, 85, 115, 101, 32, 111, 32, 99, 97, 114, 116, 227,
           111, 32, 114, 101, 103, 117, 108, 97, 114, 109, 101, 110, 116,
           101, 10, 45, 32, 65, 116, 117, 97, 108, 105, 122, 101, 32, 115,
           117, 97, 115, 32, 105, 110, 102, 111, 114, 109, 97, 231, 245,
           101, 115, 32, 100, 101, 32, 114, 101, 110, 100, 97, 10, 45, 32,
           83, 111, 108, 105, 99, 105, 116, 101, 32, 114, 101, 97, 118, 97,
           108, 105, 97, 231, 227, 111, 32, 97, 32, 99, 97, 100, 97, 32, 54,
           32, 109, 101, 115, 101, 115>>,
       category |-> "limits",
       tags |-> <<
         \* limite
         <<108, 105, 109, 105, 116, 101>>,
         \* minimo
         <<109, 237, 110, 105, 109, 111>>,
         \* maximo
         <<109, 225, 120, 105, 109, 111>>,
         \* valor
         <<118, 97, 108, 111, 114>>,
         \* solicitar
         <<115, 111, 108, 105, 99, 105, 116, 97, 114>>>>,
       helpfulCount |-> 156,
       createdAt |-> 1706785200,    \* 2024-02-01T11:00:00Z
       updatedAt |-> 1732034700]    \* 2024-11-19T16:45:00Z
      ,
      \* faq-3: Por quanto tempo o limite aumentado fica disponivel?
      [id |-> "faq-3",
       question |->
         <<80, 111, 114, 32, 113, 117, 97, 110, 116, 111, 32, 116, 101, 109,
           112, 111, 32, 111, 32, 108, 105, 109, 105, 116, 101, 32, 97, 117,
           109, 101, 110, 116, 97, 100, 111, 32, 102, 105, 99, 97, 32, 100,
           105, 115, 112, 111, 110, 237, 118, 101, 108, 63>>,
       answer |->
         <<79, 32, 97, 117, 109, 101, 110, 116, 111, 32, 100, 101, 32, 108,
           105, 109, 105, 116, 101, 32, 116, 101, 109, 32, 118, 97, 108,
           105, 100, 97, 100, 101, 32, 118, 97, 114, 105, 225, 118, 101,
           108, 58, 10, 10, 42, 42, 65, 117, 109, 101, 110, 116, 111, 32,
           80, 101, 114, 109, 97, 110, 101, 110, 116, 101, 58, 42, 42, 10,
           45, 32, 65, 112, 114, 111, 118, 97, 100, 111, 32, 97, 112, 243,
           115, 32, 97, 110, 225, 108, 105, 115, 101, 32, 100, 101, 32, 99,
           114, 233, 100, 105, 116, 111, 32, 99, 111, 109, 112, 108, 101,
           116, 97, 10, 45, 32, 70, 105, 99, 97, 32, 100, 105, 115, 112,
           111, 110, 237, 118, 101, 108, 32, 105, 110, 100, 101, 102, 105,
           110, 105, 100, 97, 109, 101, 110, 116, 101, 10, 45, 32, 80, 111,
           100, 101, 32, 115, 101, 114, 32, 117, 115, 97, 100, 111, 32, 97,
           32, 113, 117, 97, 108, 113, 117, 101, 114, 32, 109, 111, 109,
           101, 110, 116, 111, 10, 10, 42, 42, 65, 117, 109, 101, 110, 116,
           111, 32, 84, 101, 109, 112, 111, 114, 225, 114, 105, 111, 58, 42,
           42, 10, 45, 32, 86, 225, 108, 105, 100, 111, 32, 112, 111, 114,
           32, 51, 48, 32, 100, 105, 97, 115, 10, 45, 32, 218, 116, 105,
           108, 32, 112, 97, 114, 97, 32, 99, 111, 109, 112, 114, 97, 115,
           32, 101, 115, 112, 101, 99, 237, 102, 105, 99, 97, 115, 10, 45,
           32, 82, 101, 116, 111, 114, 110, 97, 32, 97, 111, 32, 108, 105,
           109, 105, 116, 101, 32, 97, 110, 116, 101, 114, 105, 111, 114,
           32, 97, 112, 243, 115, 32, 111, 32, 112, 101, 114, 237, 111, 100,
           111, 10, 45, 32, 68, 105, 115, 112, 111, 110, 237, 118, 101, 108,
           32, 49, 120, 32, 97, 32, 99, 97, 100, 97, 32, 51, 32, 109, 101,
           115, 101, 115, 10, 10, 42, 42, 82, 101, 110, 111, 118, 97, 231,
           227, 111, 58, 42, 42, 10, 45, 32, 76, 105, 109, 105, 116, 101,
           115, 32, 112, 101, 114, 109, 97, 110, 101, 110, 116, 101, 115,
           32, 115, 227, 111, 32, 114, 101, 118, 105, 115, 116, 111, 115,
           32, 97, 110, 117, 97, 108, 109, 101, 110, 116, 101, 10, 45, 32,
           86, 111, 99, 234, 32, 112, 111, 100, 101, 32, 115, 111, 108, 105,
           99, 105, 116, 97, 114, 32, 110, 111, 118, 111, 32, 97, 117, 109,
           101, 110, 116, 111, 32, 97, 112, 243, 115, 32, 54, 32, 109, 101,
           115, 101, 115, 10, 45, 32, 77, 117, 100, 97, 110, 231, 97, 115,
           32, 110, 97, 32, 115, 105, 116, 117, 97, 231, 227, 111, 32, 102,
           105, 110, 97, 110, 99, 101, 105, 114, 97, 32, 112, 111, 100, 101,
           109, 32, 97, 102, 101, 116, 97, 114, 32, 111, 32, 108, 105, 109,
           105, 116, 101>>,
       category |-> "limits",
       tags |-> <<
         \* limite
         <<108, 105, 109, 105, 116, 101>>,
         \* duracao
         <<100, 117, 114, 97, 231, 227, 111>>,
         \* validade
         <<118, 97, 108, 105, 100, 97, 100, 101>>,
         \* temporario
         <<116, 101, 109, 112, 111, 114, 225, 114, 105, 111>>,
         \* permanente
         <<112, 101, 114, 109, 97, 110, 101, 110, 116, 101>>>>,
       helpfulCount |-> 98,
       createdAt |-> 1707573600,    \* 2024-02-10T14:00:00Z
       updatedAt |-> 1732097700]    \* 2024-11-20T10:15:00Z
      ,
      \* faq-4: Minha solicitacao foi negada, o que fazer?
      [id |-> "faq-4",
       question |->
         <<77, 105, 110, 104, 97, 32, 115, 111, 108, 105, 99, 105, 116, 97,
           231, 227, 111, 32, 102, 111, 105, 32, 110, 101, 103, 97, 100, 97,
           44, 32, 111, 32, 113, 117, 101, 32, 102, 97, 122, 101, 114, 63>>,
       answer |->
         <<83, 101, 32, 115, 101, 117, 32, 112, 101, 100, 105, 100, 111, 32,
           100, 101, 32, 97, 117, 109, 101, 110, 116, 111, 32, 102, 111,
           105, 32, 110, 101, 103, 97, 100, 111, 58, 10, 10, 42, 42, 77,
           111, 116, 105, 118, 111, 115, 32, 99, 111, 109, 117, 110, 115,
           58, 42, 42, 10, 45, 32, 72, 105, 115, 116, 243, 114, 105, 99,
           111, 32, 100, 101, 32, 97, 116, 114, 97, 115, 111, 115, 32, 110,
           111, 115, 32, 112, 97, 103, 97, 109, 101, 110, 116, 111, 115, 10,
           45, 32, 83, 99, 111, 114, 101, 32, 100, 101, 32, 99, 114, 233,
           100, 105, 116, 111, 32, 98, 97, 105, 120, 111, 10, 45, 32, 82,
           101, 110, 100, 97, 32, 105, 110, 115, 117, 102, 105, 99, 105,
           101, 110, 116, 101, 10, 45, 32, 67, 97, 114, 116, 227, 111, 32,
           117, 115, 97, 100, 111, 32, 104, 225, 32, 112, 111, 117, 99, 111,
           32, 116, 101, 109, 112, 111, 32, 40, 109, 101, 110, 111, 115, 32,
           100, 101, 32, 54, 32, 109, 101, 115, 101, 115, 41, 10, 45, 32,
           76, 105, 109, 105, 116, 101, 32, 97, 116, 117, 97, 108, 32, 115,
           117, 98, 117, 116, 105, 108, 105, 122, 97, 100, 111, 10, 10, 42,
           42, 79, 32, 113, 117, 101, 32, 118, 111, 99, 234, 32, 112, 111,
           100, 101, 32, 102, 97, 122, 101, 114, 58, 42, 42, 10, 49, 46, 32,
           65, 103, 117, 97, 114, 100, 101, 32, 57, 48, 32, 100, 105, 97,
           115, 32, 112, 97, 114, 97, 32, 110, 111, 118, 97, 32, 115, 111,
           108, 105, 99, 105, 116, 97, 231, 227, 111, 10, 50, 46, 32, 80,
           97, 103, 117, 101, 32, 115, 117, 97, 115, 32, 102, 97, 116, 117,
           114, 97, 115, 32, 115, 101, 109, 112, 114, 101, 32, 101, 109, 32,
           100, 105, 97, 10, 51, 46, 32, 85, 116, 105, 108, 105, 122, 101,
           32, 112, 101, 108, 111, 32, 109, 101, 110, 111, 115, 32, 51, 48,
           37, 32, 100, 111, 32, 108, 105, 109, 105, 116, 101, 32, 97, 116,
           117, 97, 108, 10, 52, 46, 32, 65, 116, 117, 97, 108, 105, 122,
           101, 32, 115, 117, 97, 115, 32, 105, 110, 102, 111, 114, 109, 97,
           231, 245, 101, 115, 32, 100, 101, 32, 114, 101, 110, 100, 97, 10,
           53, 46, 32, 67, 111, 110, 115, 117, 108, 116, 101, 32, 101, 32,
           109, 101, 108, 104, 111, 114, 101, 32, 115, 101, 117, 32, 115,
           99, 111, 114, 101, 32, 100, 101, 32, 99, 114, 233, 100, 105, 116,
           111, 10, 10, 42, 42, 65, 108, 116, 101, 114, 110, 97, 116, 105,
           118, 97, 115, 58, 42, 42, 10, 45, 32, 83, 111, 108, 105, 99, 105,
           116, 101, 32, 117, 109, 32, 108, 105, 109, 105, 116, 101, 32,
           116, 101, 109, 112, 111, 114, 225, 114, 105, 111, 32, 109, 101,
           110, 111, 114, 10, 45, 32, 85, 115, 101, 32, 97, 32, 102, 117,
           110, 231, 227, 111, 32, 100, 101, 32, 112, 97, 114, 99, 101, 108,
           97, 109, 101, 110, 116, 111, 32, 112, 97, 114, 97, 32, 99, 111,
           109, 112, 114, 97, 115, 32, 103, 114, 97, 110, 100, 101, 115, 10,
           45, 32, 69, 110, 116, 114, 101, 32, 101, 109, 32, 99, 111, 110,
           116, 97, 116, 111, 32, 99, 111, 109, 32, 111, 32, 115, 117, 112,
           111, 114, 116, 101, 32, 112, 97, 114, 97, 32, 109, 97, 105, 115,
           32, 100, 101, 116, 97, 108, 104, 101, 115>>,
       category |-> "limits",
       tags |-> <<
         \* limite
         <<108, 105, 109, 105, 116, 101>>,
         \* negado
         <<110, 101, 103, 97, 100, 111>>,
         \* recusado
         <<114, 101, 99, 117, 115, 97, 100, 111>>,
         \* reprovado
         <<114, 101, 112, 114, 111, 118, 97, 100, 111>>,
         \* tentar novamente
         <<116, 101, 110, 116, 97, 114, 32, 110, 111, 118, 97, 109, 101,
           110, 116, 101>>>>,
       helpfulCount |-> 187,
       createdAt |-> 1709285400,    \* 2024-03-01T09:30:00Z
       updatedAt |-> 1732177200]    \* 2024-11-21T08:20:00Z
      ,
      \* faq-5: Como funciona a analise de credito para aumento?
      [id |-> "faq-5",
       question |->
         <<67, 111, 109, 111, 32, 102, 117, 110, 99, 105, 111, 110, 97, 32,
           97, 32, 97, 110, 225, 108, 105, 115, 101, 32, 100, 101, 32, 99,
           114, 233, 100, 105, 116, 111, 32, 112, 97, 114, 97, 32, 97, 117,
           109, 101, 110, 116, 111, 63>>,
       answer |->
         <<65, 32, 97, 110, 225, 108, 105, 115, 101, 32, 100, 101, 32, 99,
           114, 233, 100, 105, 116, 111, 32, 99, 111, 110, 115, 105, 100,
           101, 114, 97, 32, 100, 105, 118, 101, 114, 115, 111, 115, 32,
           102, 97, 116, 111, 114, 101, 115, 58, 10, 10, 42, 42, 70, 97,
           116, 111, 114, 101, 115, 32, 97, 118, 97, 108, 105, 97, 100, 111,
           115, 58, 42, 42, 10, 45, 32, 83, 99, 111, 114, 101, 32, 100, 101,
           32, 99, 114, 233, 100, 105, 116, 111, 32, 40, 83, 101, 114, 97,
           115, 97, 44, 32, 83, 80, 67, 44, 32, 101, 116, 99, 41, 10, 45,
           32, 72, 105, 115, 116, 243, 114, 105, 99, 111, 32, 100, 101, 32,
           112, 97, 103, 97, 109, 101, 110, 116, 111, 115, 10, 45, 32, 82,
           101, 110, 100, 97, 32, 109, 101, 110, 115, 97, 108, 32, 100, 101,
           99, 108, 97, 114, 97, 100, 97, 10, 45, 32, 84, 101, 109, 112,
           111, 32, 100, 101, 32, 114, 101, 108, 97, 99, 105, 111, 110, 97,
           109, 101, 110, 116, 111, 32, 99, 111, 109, 32, 111, 32, 98, 97,
           110, 99, 111, 10, 45, 32, 85, 116, 105, 108, 105, 122, 97, 231,
           227, 111, 32, 100, 111, 32, 108, 105, 109, 105, 116, 101, 32, 97,
           116, 117, 97, 108, 10, 45, 32, 68, 237, 118, 105, 100, 97, 115,
           32, 101, 109, 32, 111, 117, 116, 114, 97, 115, 32, 105, 110, 115,
           116, 105, 116, 117, 105, 231, 245, 101, 115, 10, 10, 42, 42, 80,
           114, 111, 99, 101, 115, 115, 111, 32, 97, 117, 116, 111, 109,
           225, 116, 105, 99, 111, 58, 42, 42, 10, 45, 32, 65, 110, 225,
           108, 105, 115, 101, 32, 102, 101, 105, 116, 97, 32, 101, 109, 32,
           116, 101, 109, 112, 111, 32, 114, 101, 97, 108, 10, 45, 32, 65,
           108, 103, 111, 114, 105, 116, 109, 111, 32, 100, 101, 32, 73, 65,
           32, 97, 118, 97, 108, 105, 97, 32, 115, 101, 117, 32, 112, 101,
           114, 102, 105, 108, 10, 45, 32, 68, 101, 99, 105, 115, 227, 111,
           32, 101, 109, 32, 97, 116, 233, 32, 52, 56, 32, 104, 111, 114,
           97, 115, 10, 45, 32, 78, 227, 111, 32, 97, 102, 101, 116, 97, 32,
           110, 101, 103, 97, 116, 105, 118, 97, 109, 101, 110, 116, 101,
           32, 115, 101, 117, 32, 115, 99, 111, 114, 101, 10, 10, 42, 42,
           68, 97, 100, 111, 115, 32, 110, 101, 99, 101, 115, 115, 225, 114,
           105, 111, 115, 58, 42, 42, 10, 45, 32, 67, 80, 70, 32, 97, 116,
           117, 97, 108, 105, 122, 97, 100, 111, 10, 45, 32, 67, 111, 109,
           112, 114, 111, 118, 97, 110, 116, 101, 32, 100, 101, 32, 114,
           101, 110, 100, 97, 32, 114, 101, 99, 101, 110, 116, 101, 10, 45,
           32, 69, 110, 100, 101, 114, 101, 231, 111, 32, 97, 116, 117, 97,
           108, 105, 122, 97, 100, 111, 10, 45, 32, 84, 101, 108, 101, 102,
           111, 110, 101, 32, 101, 32, 101, 109, 97, 105, 108, 32, 118, 225,
           108, 105, 100, 111, 115, 10, 10, 42, 42, 84, 114, 97, 110, 115,
           112, 97, 114, 234, 110, 99, 105, 97, 58, 42, 42, 10, 45, 32, 86,
           111, 99, 234, 32, 112, 111, 100, 101, 32, 99, 111, 110, 115, 117,
           108, 116, 97, 114, 32, 111, 32, 109, 111, 116, 105, 118, 111, 32,
           100, 97, 32, 100, 101, 99, 105, 115, 227, 111, 10, 45, 32, 79,
           114, 105, 101, 110, 116, 97, 231, 245, 101, 115, 32, 112, 97,
           114, 97, 32, 109, 101, 108, 104, 111, 114, 97, 114, 32, 115, 101,
           117, 32, 112, 101, 114, 102, 105, 108, 10, 45, 32, 83, 117, 112,
           111, 114, 116, 101, 32, 100, 105, 115, 112, 111, 110, 237, 118,
           101, 108, 32, 112, 97, 114, 97, 32, 100, 250, 118, 105, 100, 97,
           115>>,
       category |-> "limits",
       tags |-> <<
         \* analise
         <<97, 110, 225, 108, 105, 115, 101>>,
         \* credito
         <<99, 114, 233, 100, 105, 116, 111>>,
         \* score
         <<115, 99, 111, 114, 101>>,
         \* aprovacao
         <<97, 112, 114, 111, 118, 97, 231, 227, 111>>,
         \* criterios
         <<99, 114, 105, 116, 233, 114, 105, 111, 115>>>>,
       helpfulCount |-> 145,
       createdAt |-> 1710507600,    \* 2024-03-15T13:00:00Z
       updatedAt |-> 1732105800]    \* 2024-11-20T12:30:00Z
    >>

\* a reference to an FAQ object is its place in FAQS
Faq(ref) == FAQS[ref]

\* String.prototype.toLowerCase, on the Latin-1 letters the data holds
LowerUnit(c) ==
    IF (c >= 65 /\ c <= 90) \/ (c >= 192 /\ c <= 222 /\ c # 215)
    THEN c + 32 ELSE c

toLowerCase(s) == [i \in 1..Len(s) |-> LowerUnit(s[i])]

\* the white space String.prototype.trim removes
IsWhiteSpace(c) == c \in {9, 10, 11, 12, 13, 32, 160}

RECURSIVE trimStart(_)
trimStart(s) ==
    IF s # <<>> /\ IsWhiteSpace(Head(s)) THEN trimStart(Tail(s)) ELSE s

RECURSIVE trimEnd(_)
trimEnd(s) ==
    IF s # <<>> /\ IsWhiteSpace(s[Len(s)])
    THEN trimEnd(SubSeq(s, 1, Len(s) - 1)) ELSE s

trim(s) == trimEnd(trimStart(s))

\* String.prototype.includes
includes(s, q) ==
    \/ q = <<>>
    \/ \E i \in 0..(Len(s) - Len(q)) :
          s[i + 1] = q[1] /\ SubSeq(s, i + 1, i + Len(q)) = q

\* an array value of the handler: its elements, and whether it is the
\* MOCK_FAQS array itself rather than a new array
NewArray(items) == [aliased |-> FALSE, items |-> items]

TheMockArray(items) == [aliased |-> TRUE, items |-> items]

\* findFAQById that compares ids without regard to case
findFAQById_IgnoreCase(array, id) ==
    LET lower == IF id = "FAQ-1" THEN "faq-1" ELSE id
        found == SelectSeq(array, LAMBDA ref : Faq(ref).id = lower)
    IN  IF found = <<>> THEN <<>> ELSE <<Head(found)>>

\* findFAQById: MOCK_FAQS.find, <<>> for undefined and <<ref>> for the first
\* FAQ of the array with that id
findFAQById(array, id) ==
    LET found == SelectSeq(array, LAMBDA ref : Faq(ref).id = id)
    IN  IF found = <<>> THEN <<>> ELSE <<Head(found)>>

\* filterFAQsByCategory
filterFAQsByCategory(array, category) ==
    NewArray(SelectSeq(array, LAMBDA ref : Faq(ref).category = category))

\* question.toLowerCase(), answer.toLowerCase() and tag.toLowerCase() of
\* each FAQ object
LowerCased ==
    [ref \in 1..Len(FAQS) |->
        [question |-> toLowerCase(FAQS[ref].question),
         answer |-> toLowerCase(FAQS[ref].answer),
         tags |-> [t \in 1..Len(FAQS[ref].tags) |-> toLowerCase(FAQS[ref].tags[t])]]]

\* the search texts of the requests
SearchTexts ==
    {<<>>,                                  \* ""
     <<32>>,                                \* " "
     <<32, 83, 99, 111, 114, 101, 32>>,     \* " Score "
     <<76, 73, 77, 73, 84, 69>>,            \* "LIMITE"
     <<120, 121, 122>>}                     \* "xyz"

\* the filter of searchFAQs: question, answer or a tag holds the query
FilterMatches(ref, query) ==
    \/ includes(LowerCased[ref].question, query)
    \/ includes(LowerCased[ref].answer, query)
    \/ \E t \in 1..Len(LowerCased[ref].tags) :
          includes(LowerCased[ref].tags[t], query)

\* the filter, worked out once for the queries of the requests
MatchTable ==
    [query \in {trim(toLowerCase(s)) : s \in SearchTexts} |->
        {ref \in 1..Len(FAQS) : FilterMatches(ref, query)}]

MatchesQuery(ref, query) ==
    IF query \in DOMAIN MatchTable
    THEN ref \in MatchTable[query]
    ELSE FilterMatches(ref, query)

\* searchFAQs that copies the array when the query is empty
searchFAQs_Copy(array, searchText) ==
    LET query == trim(toLowerCase(searchText))
    IN  NewArray(SelectSeq(array, LAMBDA ref : query = <<>> \/ MatchesQuery(ref, query)))

\* searchFAQs that compares the query as it was typed
searchFAQs_CaseSensitive(array, searchText) ==
    LET query == trim(searchText)
    IN  IF query = <<>> THEN TheMockArray(array)
        ELSE NewArray(SelectSeq(array, LAMBDA ref : MatchesQuery(ref, query)))

\* searchFAQs
searchFAQs(array, searchText) ==
    LET query == trim(toLowerCase(searchText))
    IN  IF query = <<>> THEN TheMockArray(array)
        ELSE NewArray(SelectSeq(array, LAMBDA ref : MatchesQuery(ref, query)))

\* the letter a code unit sorts as: case and accent set aside
CollationUnit(c) ==
    LET l == LowerUnit(c)
    IN  CASE l \in 224..229 -> 97       \* a
          [] l = 231 -> 99              \* c
          [] l \in 232..235 -> 101      \* e
          [] l \in 236..239 -> 105      \* i
          [] l \in 242..246 -> 111      \* o
          [] l \in 249..252 -> 117      \* u
          [] OTHER -> l

\* a.localeCompare(b), by the first place where the letters differ
RECURSIVE localeCompare(_, _)
localeCompare(a, b) ==
    CASE a = <<>> /\ b = <<>> -> 0
      [] a = <<>> /\ b # <<>> -> -1
      [] a # <<>> /\ b = <<>> -> 1
      [] OTHER ->
           IF CollationUnit(Head(a)) < CollationUnit(Head(b)) THEN -1
           ELSE IF CollationUnit(Head(a)) > CollationUnit(Head(b)) THEN 1
           ELSE localeCompare(Tail(a), Tail(b))

\* a.question.localeCompare(b.question), worked out once for each pair
QuestionOrder ==
    [a \in 1..Len(FAQS) |->
        [b \in 1..Len(FAQS) |-> localeCompare(FAQS[a].question, FAQS[b].question)]]

\* the compare function the handler gives to sort, for each sortBy
Compare(sortBy, a, b) ==
    CASE sortBy = "helpful" -> Faq(b).helpfulCount - Faq(a).helpfulCount
      [] sortBy = "recent" -> Faq(b).updatedAt - Faq(a).updatedAt
      [] sortBy = "alphabetical" -> QuestionOrder[a][b]
      [] OTHER -> 0

\* Array.prototype.sort: stable
RECURSIVE InsertSorted(_, _, _)
InsertSorted(sorted, x, sortBy) ==
    IF sorted # <<>> /\ Compare(sortBy, sorted[Len(sorted)], x) > 0
    THEN InsertSorted(SubSeq(sorted, 1, Len(sorted) - 1), x, sortBy)
             \o <<sorted[Len(sorted)]>>
    ELSE sorted \o <<x>>

RECURSIVE Sort(_, _)
Sort(items, sortBy) ==
    IF items = <<>> THEN <<>>
    ELSE InsertSorted(Sort(SubSeq(items, 1, Len(items) - 1), sortBy),
                      items[Len(items)], sortBy)

\* a query parameter is {} when absent and {s} when given; ids and
\* categories are compared whole and stay TLA+ strings
IsGiven(param, empty) == param # {} /\ param # {empty}

\* the handler of GET /api/faqs up to the sort: the array it ends with
FilteredFaqs(array, req) ==
    LET copy == NewArray(array)
        searched ==
            IF IsGiven(req.search, <<>>)
            THEN searchFAQs(array, OptionOr(req.search, <<>>))
            ELSE copy
    IN  IF IsGiven(req.category, "")
        THEN LET categoryFaqs ==
                     filterFAQsByCategory(array, OptionOr(req.category, ""))
             IN  IF IsGiven(req.search, <<>>)
                 THEN NewArray(SelectSeq(searched.items,
                          LAMBDA ref : \E i \in 1..Len(categoryFaqs.items) :
                              Faq(categoryFaqs.items[i]).id = Faq(ref).id))
                 ELSE categoryFaqs
        ELSE searched

\* the sort of the handler, in place
SortedFaqs(faqs, req) ==
    LET sortBy == OptionOr(req.sortBy, "helpful")
    IN  IF sortBy \in {"helpful", "recent", "alphabetical"}
        THEN [faqs EXCEPT !.items = Sort(faqs.items, sortBy)]
        ELSE faqs

\* a request: the route it reaches, its method and its query; a parameter
\* the request does not carry is {}
Request(route, method, id, search, category, sortBy) ==
    [route |-> route, method |-> method, id |-> id, search |-> search,
     category |-> category, sortBy |-> sortBy]

\* the data of an envelope: the FAQ[] of /api/faqs, the FAQ of /api/faqs/[id]
ArrayData(items) == [isArray |-> TRUE, items |-> items]

ObjectData(ref) == [isArray |-> FALSE, items |-> <<ref>>]

\* the meta of an envelope; the timestamp is left out
Meta(total) == [total |-> total]

\* ApiResponse.success: a key whose value is absent is {}
ApiResponse_success(data, meta) ==
    [success |-> TRUE, data |-> {data}, error |-> {}, meta |-> {meta}]

\* ApiResponse.error that also carries an empty data array
ApiResponse_error_WithData(code, message) ==
    [success |-> FALSE, data |-> {ArrayData(<<>>)},
     error |-> {[code |-> code, message |-> message]}, meta |-> {}]

\* ApiResponse.error
ApiResponse_error(code, message) ==
    [success |-> FALSE, data |-> {}, error |-> {[code |-> code, message |-> message]},
     meta |-> {}]

\* nothing sent yet
NoResponse ==
    [request |-> Request("", "", {}, {}, {}, {}), status |-> 0,
     body |-> [success |-> FALSE, data |-> {}, error |-> {}, meta |-> {}]]

\* res.status(status).json(ApiResponse.error(code, message))
ErrorResponse(req, status, code, message) ==
    [request |-> req, status |-> status, body |-> ApiResponse_error(code, message)]

\* res.status(200).json(ApiResponse.success(faqs, {total: faqs.length, ...}))
SuccessResponse(req, items) ==
    [request |-> req, status |-> 200,
     body |-> ApiResponse_success(ArrayData(items), Meta({Len(items)}))]

\* res.status(200).json(ApiResponse.success(faq, {timestamp}))
FaqResponse(req, ref) ==
    [request |-> req, status |-> 200,
     body |-> ApiResponse_success(ObjectData(ref), Meta({}))]

MaxPending == 2     \* delayed responses in flight

Blank == <<32>>                                 \* " "

Score == <<32, 83, 99, 111, 114, 101, 32>>      \* " Score "

Limite == <<76, 73, 77, 73, 84, 69>>            \* "LIMITE"

Xyz == <<120, 121, 122>>                        \* "xyz"

\* /api/faqs: GET with no search, with a blank one under each sort, with a
\* search some FAQs match, alone and with a category, with one no FAQ
\* matches and with the empty string; and a POST
Requests ==
    {Request("/api/faqs", "GET", {}, {}, category, sortBy) :
        category \in {{}, {"card"}}, sortBy \in {{}, {"name"}}}
    \cup
    {Request("/api/faqs", "GET", {}, {Blank}, {}, sortBy) :
        sortBy \in {{}, {"recent"}, {"alphabetical"}}}
    \cup
    {Request("/api/faqs", "GET", {}, {Limite}, category, {"alphabetical"}) :
        category \in {{}, {"limits"}}}
    \cup
    {Request("/api/faqs", "GET", {}, {Score}, {"limits"}, {"recent"}),
     Request("/api/faqs", "GET", {}, {Xyz}, {}, {}),
     Request("/api/faqs", "GET", {}, {<<>>}, {"limits"}, {"recent"}),
     Request("/api/faqs", "POST", {}, {}, {""}, {"helpful"})}

\* /api/faqs/[id]: the ids of two FAQs, two ids no FAQ has, and a call of
\* the handler with no id in the query
IdRequests ==
    {Request("/api/faqs/[id]", method, id, {}, {}, {}) :
        method \in {"GET", "POST"},
        id \in {{}, {"faq-1"}, {"faq-4"}, {"faq-9"}, {"FAQ-1"}}}

\* the API server after the module is loaded
InitFaq(env) ==
    /\ nodeEnv = env
    /\ mockFaqs = [i \in 1..Len(FAQS) |-> i]
    /\ pending = <<>>
    /\ response = NoResponse

\* GET /api/faqs: the handler
GetFaqs(req) ==
    /\ Len(pending) < MaxPending
    /\ IF req.method # "GET"
       THEN /\ response' = ErrorResponse(req, 405, "METHOD_NOT_ALLOWED",
                               <<"Apenas GET e permitido">>)
            /\ UNCHANGED <<mockFaqs, pending>>
       ELSE LET faqs == SortedFaqs(FilteredFaqs(mockFaqs, req), req)
            IN  /\ mockFaqs' = IF faqs.aliased THEN faqs.items ELSE mockFaqs
                /\ IF nodeEnv = "development"
                   THEN /\ pending' = Append(pending, [request |-> req, faqs |-> faqs])
                        /\ response' = NoResponse
                   ELSE /\ response' = SuccessResponse(req, faqs.items)
                        /\ UNCHANGED pending
    /\ UNCHANGED <<nodeEnv, cardVars, toastVars, hookVars>>

\* GET /api/faqs/[id]: the handler
GetFaqById(req) ==
    /\ Len(pending) < MaxPending
    /\ IF req.method # "GET"
       THEN /\ response' = ErrorResponse(req, 405, "METHOD_NOT_ALLOWED",
                               <<"Apenas GET e permitido">>)
            /\ UNCHANGED pending
       ELSE IF ~IsGiven(req.id, "")
       THEN /\ response' = ErrorResponse(req, 400, "INVALID_REQUEST",
                               <<"ID da FAQ e obrigatorio e deve ser uma string">>)
            /\ UNCHANGED pending
       ELSE LET id == OptionOr(req.id, "")
                faq == findFAQById(mockFaqs, id)
            IN  IF faq = <<>>
                THEN /\ response' = ErrorResponse(req, 404, "NOT_FOUND",
                                        <<"FAQ com ID ", id, " nao foi encontrada">>)
                     /\ UNCHANGED pending
                ELSE IF nodeEnv = "development"
                THEN /\ pending' = Append(pending,
                                       [request |-> req, faqs |-> NewArray(<<Head(faq)>>)])
                     /\ response' = NoResponse
                ELSE /\ response' = FaqResponse(req, Head(faq))
                     /\ UNCHANGED pending
    /\ UNCHANGED <<nodeEnv, mockFaqs, cardVars, toastVars, hookVars>>

\* the setTimeout of a development delay runs, those of one route in the
\* order they were set: the array is read now
DelayedResponse ==
    /\ \E i \in 1..Len(pending) :
          /\ \A j \in 1..(i - 1) : pending[j].request.route # pending[i].request.route
          /\ LET p == pending[i]
             IN  response' =
                     IF p.request.route = "/api/faqs"
                     THEN SuccessResponse(p.request,
                              IF p.faqs.aliased THEN mockFaqs ELSE p.faqs.items)
                     ELSE FaqResponse(p.request, Head(p.faqs.items))
          /\ pending' = SubSeq(pending, 1, i - 1) \o SubSeq(pending, i + 1, Len(pending))
    /\ UNCHANGED <<nodeEnv, mockFaqs, cardVars, toastVars, hookVars>>

NextFaq ==
    \/ \E req \in Requests : GetFaqs(req)
    \/ \E req \in IdRequests : GetFaqById(req)
    \/ DelayedResponse

----------------------------------------------------------------------------
(* useAsync, and useFAQs which calls it with fetchFAQs *)

\* AsyncState<T, E>: data and error are {} when absent. The data of a
\* success and the error of a failure are named by the execution whose
\* Result they come from.
Idle == [status |-> "idle", data |-> {}, error |-> {}]

Loading == [status |-> "loading", data |-> {}, error |-> {}]

Success(execution) == [status |-> "success", data |-> {execution}, error |-> {}]

Failure(execution) == [status |-> "error", data |-> {}, error |-> {execution}]

\* the helpers derived from state
isLoading == asyncState.status = "loading"

MaxExecutions == 4      \* calls of execute

\* the components: one that calls useAsync(asyncFunction, immediate) and one
\* that calls useFAQs({filters, autoFetch}); the function, or the filters
\* object fetchFAQs is memoized on, is the same object in every render
\* ("stable") or a new one in each render ("perRender": an inline function,
\* an object literal, or the default filters = {} of useFAQs)
AsyncCallers ==
    [hook : {"useAsync", "useFAQs"}, identity : {"stable", "perRender"},
     immediate : BOOLEAN]

\* what asyncFunction may do: resolve to Result.ok, resolve to Result.err,
\* or throw; fetchFAQs catches every exception
Outcomes(caller) ==
    IF caller.hook = "useFAQs" THEN {"ok", "err"} ELSE {"ok", "err", "throw"}

NoAsyncEvent == [op |-> "none", execution |-> 0, filtersChanged |-> FALSE]

AsyncEvent(op, execution, filtersChanged) ==
    [op |-> op, execution |-> execution, filtersChanged |-> filtersChanged]

\* the component before its first render
InitAsync(caller) ==
    /\ asyncCaller = caller
    /\ asyncPhase = "initial"
    /\ asyncState = Idle
    /\ isMountedRef = TRUE
    /\ executionCountRef = 0
    /\ inFlight = {}
    /\ renderPending = FALSE
    /\ depsChanged = FALSE
    /\ asyncEvent = NoAsyncEvent

\* the calls of execute() made by the effects that follow a render: the
\* effect of useAsync on [immediate, execute], then the effect of useFAQs
\* on [searchText, categories, sortBy, autoFetch, execute]; execute is a
\* new function when asyncFunction is, and fetchFAQs when filters is
EffectCalls(first, executeChanged) ==
    (IF asyncCaller.immediate /\ (first \/ executeChanged) THEN 1 ELSE 0)
    + (IF asyncCaller.hook = "useFAQs" /\ asyncCaller.immediate
          /\ (first \/ executeChanged) THEN 1 ELSE 0)

\* n calls of execute up to its await: the counter, setState(loading), and
\* the call of asyncFunction
Executed(n) ==
    /\ executionCountRef' = executionCountRef + n
    /\ inFlight' = inFlight \cup ((executionCountRef + 1)..(executionCountRef + n))
    /\ asyncState' = IF n > 0 THEN Loading ELSE asyncState
    /\ renderPending' = (n > 0)

\* the first render and its effects
MountAsync ==
    /\ asyncPhase = "initial"
    /\ asyncPhase' = "mounted"
    /\ isMountedRef' = TRUE
    /\ Executed(EffectCalls(TRUE, FALSE))
    /\ depsChanged' = FALSE
    /\ asyncEvent' = AsyncEvent("mount", 0, FALSE)
    /\ UNCHANGED asyncCaller
    /\ UNCHANGED notAsyncVars

\* a scheduled render and its effects
RenderAsync ==
    /\ asyncPhase = "mounted"
    /\ renderPending
    /\ LET executeChanged == asyncCaller.identity = "perRender" \/ depsChanged
           n == EffectCalls(FALSE, executeChanged)
       IN  /\ executionCountRef + n <= MaxExecutions
           /\ Executed(n)
    /\ depsChanged' = FALSE
    /\ asyncEvent' = AsyncEvent("render", 0, depsChanged)
    /\ UNCHANGED <<asyncCaller, asyncPhase, isMountedRef>>
    /\ UNCHANGED notAsyncVars

\* the parent gives the component new filters (a new asyncFunction)
SetFilters ==
    /\ asyncPhase = "mounted"
    /\ ~depsChanged
    /\ depsChanged' = TRUE
    /\ renderPending' = TRUE
    /\ asyncEvent' = AsyncEvent("setFilters", 0, TRUE)
    /\ UNCHANGED <<asyncCaller, asyncPhase, asyncState, isMountedRef,
                   executionCountRef, inFlight>>
    /\ UNCHANGED notAsyncVars

\* execute(), called by the component (refetch of useFAQs)
execute ==
    /\ asyncPhase = "mounted"
    /\ executionCountRef < MaxExecutions
    /\ Executed(1)
    /\ asyncEvent' = AsyncEvent("execute", executionCountRef + 1, FALSE)
    /\ UNCHANGED <<asyncCaller, asyncPhase, isMountedRef, depsChanged>>
    /\ UNCHANGED notAsyncVars

\* reset() of useAsync
resetAsync ==
    /\ asyncPhase = "mounted"
    /\ asyncCaller.hook = "useAsync"
    /\ asyncState' = Idle
    /\ renderPending' = TRUE
    /\ asyncEvent' = AsyncEvent("reset", 0, FALSE)
    /\ UNCHANGED <<asyncCaller, asyncPhase, isMountedRef, executionCountRef,
                   inFlight, depsChanged>>
    /\ UNCHANGED notAsyncVars

\* the state a completed execution sets
Settled(currentExecution, outcome) ==
    IF outcome = "ok" THEN Success(currentExecution) ELSE Failure(currentExecution)

\* execute after its await, without the test of executionCountRef
Settle_AnyExecution(currentExecution, outcome) ==
    /\ currentExecution \in inFlight
    /\ outcome \in Outcomes(asyncCaller)
    /\ inFlight' = inFlight \ {currentExecution}
    /\ IF ~isMountedRef
       THEN UNCHANGED <<asyncState, renderPending>>
       ELSE /\ asyncState' = Settled(currentExecution, outcome)
            /\ renderPending' = TRUE
    /\ asyncEvent' = AsyncEvent("settle", currentExecution, FALSE)
    /\ UNCHANGED <<asyncCaller, asyncPhase, isMountedRef, executionCountRef,
                   depsChanged>>
    /\ UNCHANGED notAsyncVars

\* execute after its await, without the test of isMountedRef
Settle_Unmounted(currentExecution, outcome) ==
    /\ currentExecution \in inFlight
    /\ outcome \in Outcomes(asyncCaller)
    /\ inFlight' = inFlight \ {currentExecution}
    /\ IF currentExecution # executionCountRef
       THEN UNCHANGED <<asyncState, renderPending>>
       ELSE /\ asyncState' = Settled(currentExecution, outcome)
            /\ renderPending' = (asyncPhase = "mounted")
    /\ asyncEvent' = AsyncEvent("settle", currentExecution, FALSE)
    /\ UNCHANGED <<asyncCaller, asyncPhase, isMountedRef, executionCountRef,
                   depsChanged>>
    /\ UNCHANGED notAsyncVars

\* execute after its await: asyncFunction resolved or threw
Settle(currentExecution, outcome) ==
    /\ currentExecution \in inFlight
    /\ outcome \in Outcomes(asyncCaller)
    /\ inFlight' = inFlight \ {currentExecution}
    /\ IF ~isMountedRef \/ currentExecution # executionCountRef
       THEN UNCHANGED <<asyncState, renderPending>>
       ELSE /\ asyncState' = Settled(currentExecution, outcome)
            /\ renderPending' = TRUE
    /\ asyncEvent' = AsyncEvent("settle", currentExecution, FALSE)
    /\ UNCHANGED <<asyncCaller, asyncPhase, isMountedRef, executionCountRef,
                   depsChanged>>
    /\ UNCHANGED notAsyncVars

\* the component unmounts: the cleanup of the mount effect
UnmountAsync ==
    /\ asyncPhase = "mounted"
    /\ asyncPhase' = "unmounted"
    /\ isMountedRef' = FALSE
    /\ renderPending' = FALSE
    /\ asyncEvent' = AsyncEvent("unmount", 0, FALSE)
    /\ UNCHANGED <<asyncCaller, asyncState, executionCountRef, inFlight,
                   depsChanged>>
    /\ UNCHANGED notAsyncVars

NextAsync ==
    \/ MountAsync
    \/ RenderAsync
    \/ SetFilters
    \/ execute
    \/ resetAsync
    \/ \E n \in 1..MaxExecutions, outcome \in {"ok", "err", "throw"} :
           Settle(n, outcome)
    \/ UnmountAsync

----------------------------------------------------------------------------
(* useDebounce, as FAQSearch calls it *)

DEFAULT_DELAY == 500

SEARCH_DELAY == 300

\* the delays given to the hook
Delays == {DEFAULT_DELAY, SEARCH_DELAY}

\* what the user types into the search input
Typed == {"", "r", "re"}

TimeStep == 100     \* ms of one step of time

MaxChanges == 3     \* changes of the hook's input

\* setTimeout(() => setDebouncedValue(value), delay)
Timer(value, ms) == [value |-> value, remaining |-> ms]

\* the component before its first render
InitDebounce(ms) ==
    /\ debouncePhase = "initial"
    /\ localValue = ""
    /\ delay = ms
    /\ debouncedValue = ""
    /\ timers = {}
    /\ heldFor = 0
    /\ changes = 0

\* the first render: the effect sets its timer
MountDebounce ==
    /\ debouncePhase = "initial"
    /\ debouncePhase' = "mounted"
    /\ timers' = {Timer(localValue, delay)}
    /\ UNCHANGED <<localValue, delay, debouncedValue, heldFor, changes>>
    /\ UNCHANGED notDebounceVars

\* setLocalValue(v) with no cleanup of the effect that ran before
setLocalValue_NoCleanup(v) ==
    /\ debouncePhase = "mounted"
    /\ v # localValue
    /\ changes < MaxChanges
    /\ localValue' = v
    /\ timers' = timers \cup {Timer(v, delay)}
    /\ heldFor' = 0
    /\ changes' = changes + 1
    /\ UNCHANGED <<debouncePhase, delay, debouncedValue>>
    /\ UNCHANGED notDebounceVars

\* setLocalValue(v) and the render that follows: value changed, so the
\* cleanup clears the timer of the last effect and the effect sets a new one
setLocalValue(v) ==
    /\ debouncePhase = "mounted"
    /\ v # localValue
    /\ changes < MaxChanges
    /\ localValue' = v
    /\ timers' = {Timer(v, delay)}
    /\ heldFor' = 0
    /\ changes' = changes + 1
    /\ UNCHANGED <<debouncePhase, delay, debouncedValue>>
    /\ UNCHANGED notDebounceVars

\* a render with another delay: the effect runs again as for a new value
DelayChanges(ms) ==
    /\ debouncePhase = "mounted"
    /\ ms # delay
    /\ changes < MaxChanges
    /\ delay' = ms
    /\ timers' = {Timer(localValue, ms)}
    /\ changes' = changes + 1
    /\ UNCHANGED <<debouncePhase, localValue, debouncedValue, heldFor>>
    /\ UNCHANGED notDebounceVars

\* time passes, up to the moment the next timer is due
Elapse ==
    /\ timers # {}
    /\ LET due == Min({tm.remaining : tm \in timers})
           ms == Min({TimeStep, due})
       IN  /\ ms > 0
           /\ timers' = {Timer(tm.value, tm.remaining - ms) : tm \in timers}
           /\ heldFor' = Min({heldFor + ms, DEFAULT_DELAY})
    /\ UNCHANGED <<debouncePhase, localValue, delay, debouncedValue, changes>>
    /\ UNCHANGED notDebounceVars

\* a timer that is due runs: setDebouncedValue(value), and a render in
\* which neither value nor delay changed
TimerFires ==
    /\ \E tm \in timers :
          /\ tm.remaining = 0
          /\ debouncedValue' = tm.value
          /\ timers' = timers \ {tm}
    /\ UNCHANGED <<debouncePhase, localValue, delay, heldFor, changes>>
    /\ UNCHANGED notDebounceVars

\* the component unmounts: the cleanup clears the timer
UnmountDebounce ==
    /\ debouncePhase = "mounted"
    /\ debouncePhase' = "unmounted"
    /\ timers' = {}
    /\ UNCHANGED <<localValue, delay, debouncedValue, heldFor, changes>>
    /\ UNCHANGED notDebounceVars

NextDebounce ==
    \/ MountDebounce
    \/ \E v \in Typed : setLocalValue(v)
    \/ \E ms \in Delays : DelayChanges(ms)
    \/ Elapse
    \/ TimerFires
    \/ UnmountDebounce

----------------------------------------------------------------------------
(* useLocalStorage, and FavoritesProvider which keeps its list in it *)

Tabs == {1, 2}

\* the ids of the FAQs the user marks
FavoriteIds == {"faq-1", "faq-2"}

\* what new Date().toISOString() returns
Times == {"t1", "t2"}

MaxEvents == 1      \* storage events waiting for one tab

\* FavoriteItem
FavoriteItem(id, favoritedAt) == [id |-> id, favoritedAt |-> favoritedAt]

\* JSON.stringify of a FavoriteItem[], token by token
RECURSIVE StringifyItems(_)
StringifyItems(items) ==
    IF items = <<>> THEN <<>>
    ELSE <<"{", "id", Head(items).id, "favoritedAt", Head(items).favoritedAt, "}">>
             \o StringifyItems(Tail(items))

JSON_stringify(items) == <<"[">> \o StringifyItems(items) \o <<"]">>

\* JSON.parse of such a text
RECURSIVE ParseItems(_)
ParseItems(tokens) ==
    IF Len(tokens) < 6 THEN <<>>
    ELSE <<FavoriteItem(tokens[3], tokens[5])>> \o ParseItems(SubSeq(tokens, 7, Len(tokens)))

JSON_parse(text) == ParseItems(SubSeq(text, 2, Len(text) - 1))

\* the lazy initial state of useState: the stored list, or initialValue
ReadStorage(text) == IF text # <<>> THEN JSON_parse(text) ELSE <<>>

\* favorites, count and isFavorite as the last render of the tab derived them
favorites(tab) == [i \in 1..Len(storedValue[tab]) |-> storedValue[tab][i].id]

count(tab) == Len(favorites(tab))

isFavorite(tab, id) == \E i \in 1..Len(favorites(tab)) : favorites(tab)[i] = id

\* the updater of addFavorite without the test for an item with the id
AddUpdater_NoCheck(prev, id, now) == <<FavoriteItem(id, now)>> \o prev

\* the updater addFavorite gives to the setter
AddUpdater(prev, id, now) ==
    IF \E i \in 1..Len(prev) : prev[i].id = id
    THEN prev
    ELSE <<FavoriteItem(id, now)>> \o prev

\* the updater removeFavorite gives to the setter
RemoveUpdater(prev, id) == SelectSeq(prev, LAMBDA item : item.id # id)

NoFavEvent == [tab |-> 0, op |-> "none", id |-> "", now |-> ""]

FavEvent(tab, op, id, now) == [tab |-> tab, op |-> op, id |-> id, now |-> now]

\* the tabs after their first render, in a browser that stored nothing yet
InitStorage(tabs) ==
    /\ openTabs = tabs
    /\ localStorage = <<>>
    /\ storedValue = [tab \in Tabs |-> ReadStorage(<<>>)]
    /\ reactState = [tab \in Tabs |-> ReadStorage(<<>>)]
    /\ storageEvents = [tab \in Tabs |-> <<>>]
    /\ favEvent = NoFavEvent

\* setValue after valueToStore is computed: setStoredValue, setItem, and the
\* custom event, whose handler in this tab sets the same value; setItem
\* queues a storage event for the other tabs when the text changes
Stored(tab, valueToStore) ==
    LET text == JSON_stringify(valueToStore)
        others == IF text # localStorage THEN openTabs \ {tab} ELSE {}
    IN  /\ \A other \in others : Len(storageEvents[other]) < MaxEvents
        /\ reactState' = [reactState EXCEPT ![tab] = valueToStore]
        /\ localStorage' = text
        /\ storageEvents' =
               [other \in Tabs |->
                   IF other \in others
                   THEN Append(storageEvents[other], text)
                   ELSE storageEvents[other]]
        /\ UNCHANGED <<openTabs, storedValue>>
        /\ UNCHANGED notStorageVars

\* setValue given an updater that applies it as useState does, to the
\* value of the update before it
addFavorite_Functional(tab, id, now) ==
    /\ tab \in openTabs
    /\ Stored(tab, AddUpdater(reactState[tab], id, now))
    /\ favEvent' = FavEvent(tab, "addFavorite", id, now)

\* addFavorite(id): setValue applies the updater to the storedValue of the
\* render that made it
addFavorite(tab, id, now) ==
    /\ tab \in openTabs
    /\ Stored(tab, AddUpdater(storedValue[tab], id, now))
    /\ favEvent' = FavEvent(tab, "addFavorite", id, now)

\* removeFavorite(id)
removeFavorite(tab, id) ==
    /\ tab \in openTabs
    /\ Stored(tab, RemoveUpdater(storedValue[tab], id))
    /\ favEvent' = FavEvent(tab, "removeFavorite", id, "")

\* toggleFavorite(id): removes or adds by the favorites of the last render
toggleFavorite(tab, id, now) ==
    /\ tab \in openTabs
    /\ IF isFavorite(tab, id)
       THEN Stored(tab, RemoveUpdater(storedValue[tab], id))
       ELSE Stored(tab, AddUpdater(storedValue[tab], id, now))
    /\ favEvent' = FavEvent(tab, "toggleFavorite", id, IF isFavorite(tab, id) THEN "" ELSE now)

\* clearFavorites()
clearFavorites(tab) ==
    /\ tab \in openTabs
    /\ Stored(tab, <<>>)
    /\ favEvent' = FavEvent(tab, "clearFavorites", "", "")

\* the tab renders the state set since its last render
RenderTab(tab) ==
    /\ tab \in openTabs
    /\ reactState[tab] # storedValue[tab]
    /\ storedValue' = [storedValue EXCEPT ![tab] = reactState[tab]]
    /\ favEvent' = FavEvent(tab, "render", "", "")
    /\ UNCHANGED <<openTabs, localStorage, reactState, storageEvents>>
    /\ UNCHANGED notStorageVars

\* handleStorageChange: the tab is handed a storage event of another tab
handleStorageChange(tab) ==
    /\ tab \in openTabs
    /\ storageEvents[tab] # <<>>
    /\ LET newValue == Head(storageEvents[tab])
       IN  reactState' =
               IF newValue # <<>>
               THEN [reactState EXCEPT ![tab] = JSON_parse(newValue)]
               ELSE reactState
    /\ storageEvents' = [storageEvents EXCEPT ![tab] = Tail(storageEvents[tab])]
    /\ favEvent' = FavEvent(tab, "storage", "", "")
    /\ UNCHANGED <<openTabs, localStorage, storedValue>>
    /\ UNCHANGED notStorageVars

\* the provider of one tab, with the storage events another tab sends it
NextFavorites ==
    \/ \E id \in FavoriteIds, now \in Times : addFavorite(1, id, now)
    \/ \E id \in FavoriteIds : removeFavorite(1, id)
    \/ \E id \in FavoriteIds, now \in Times : toggleFavorite(1, id, now)
    \/ clearFavorites(1)
    \/ RenderTab(1)

\* the providers of two tabs, all favorites marked at one time
NextTabs ==
    \/ \E tab \in Tabs, id \in FavoriteIds : addFavorite(tab, id, "t1")
    \/ \E tab \in Tabs, id \in FavoriteIds : removeFavorite(tab, id)
    \/ \E tab \in Tabs, id \in FavoriteIds : toggleFavorite(tab, id, "t1")
    \/ \E tab \in Tabs : clearFavorites(tab)
    \/ \E tab \in Tabs : RenderTab(tab)
    \/ \E tab \in Tabs : handleStorageChange(tab)

----------------------------------------------------------------------------
(* The Home page: useCardLimit, the global toast and the ActionButtons *)

\* the page state before any handler ran; the first Home page shows no toast
InitPage ==
    /\ homeEvent = [op |-> "none", flip |-> FALSE]
    /\ legacyToast = [message |-> "", type |-> "info", isVisible |-> FALSE,
                      position |-> "bottom"]
    /\ sinceHidden = 0

\* a handler of the page ran
Handled(op) == homeEvent' = [op |-> op, flip |-> ~homeEvent.flip]

\* what is typed into the input, as the digits of an amount in centavos:
\* one centavo under usedAmount, usedAmount, an amount inside the range,
\* maxLimit and one centavo over it; nothing; and a letter
HomeInputs ==
    {StringOf(n) : n \in {Reais(DEFAULT_USED).v - 1, Reais(DEFAULT_USED).v,
                          Reais(DEFAULT_USED).v + 50055,
                          Reais(DEFAULT_MAX).v, Reais(DEFAULT_MAX).v + 1}}
    \cup {<<>>, <<120>>}

\* onChange={setInputValue} of CardLimitInput
HomeInput(value) ==
    /\ Dispatched(SetInputAction(value))
    /\ Handled("input")
    /\ UNCHANGED <<options, toastVars, notPageVars, legacyToast, sinceHidden>>

\* handleSave without its guard
handleSave_Unguarded ==
    /\ Handled("save")
    /\ Dispatched(CommitChangeAction(state.numericValue))
    /\ SetToastState(Visible("Limite atualizado", "success", "top"))
    /\ toastEvent' = "show"
    /\ UNCHANGED <<options, notPageVars, legacyToast, sinceHidden>>

\* Home.handleSave, which ActionButtons.handleSave calls: commitChange of
\* numericValue and toast.success(..., 'top'); the amount the message prints
\* is left out
handleSave ==
    /\ Handled("save")
    /\ IF ~canSave
       THEN UNCHANGED <<cardVars, toastVars>>
       ELSE /\ Dispatched(CommitChangeAction(state.numericValue))
            /\ SetToastState(Visible("Limite atualizado", "success", "top"))
            /\ toastEvent' = "show"
            /\ UNCHANGED options
    /\ UNCHANGED <<notPageVars, legacyToast, sinceHidden>>

\* Home.handleCancel: reset() and toast.info('Alteracao cancelada', 'top')
handleCancel ==
    /\ Handled("cancel")
    /\ Dispatched(ResetAction)
    /\ SetToastState(Visible("Alteracao cancelada", "info", "top"))
    /\ toastEvent' = "show"
    /\ UNCHANGED <<options, notPageVars, legacyToast, sinceHidden>>

\* the page, its toast and the toast's timer
NextHome ==
    \/ \E value \in HomeInputs : HomeInput(value)
    \/ handleSave
    \/ handleCancel
    \/ hide
    \/ \E ms \in {ANIM_DURATION, Tick} : Advance(ms)
    \/ AutoHideFires

----------------------------------------------------------------------------
(* The first Home page: the useToast hook of hooks/useToast.ts and the Toast
   of components/Toast, which the page always renders *)

\* the props Home gives its Toast: duration={4000} and position="top"
LegacyProps(st) ==
    [message |-> st.message, type |-> st.type, position |-> "top",
     isVisible |-> st.isVisible, duration |-> DEFAULT_DURATION]

\* a render of Home: hideToast is a new function in each render, so the
\* onClose of the Toast's dependencies has changed and its effect runs again
RenderLegacy(st, inst) == CommitToast(ToastEffect([inst EXCEPT !.props = LegacyProps(st)]))

\* the first render of the page: the Toast is given isVisible = false
MountPage ==
    /\ ~toast.alive
    /\ toast' = CommitToast(MountToast(LegacyProps(legacyToast)))
    /\ toastEvent' = "mount"
    /\ UNCHANGED <<cardVars, providerProps, toastState, notPageVars, pageVars>>

\* toastActions.success(message), which Home.handleSave calls: showToast
\* with position = 'bottom'
showToast(message, type) ==
    /\ toast.alive
    /\ legacyToast' = [message |-> message, type |-> type, isVisible |-> TRUE,
                       position |-> "bottom"]
    /\ toast' = RenderLegacy(legacyToast', toast)
    /\ sinceHidden' = 0
    /\ toastEvent' = "show"
    /\ UNCHANGED <<cardVars, providerProps, toastState, notPageVars, homeEvent>>

\* setToast(prev => ({...prev, isVisible: false})) and the render it causes
SetHidden ==
    /\ legacyToast' = [legacyToast EXCEPT !.isVisible = FALSE]
    /\ sinceHidden' = IF legacyToast.isVisible THEN 0 ELSE sinceHidden

\* hideToast from the close button, which is there while the Toast is mounted
hideToast ==
    /\ toast.alive /\ toast.mounted
    /\ SetHidden
    /\ toast' = RenderLegacy(legacyToast', toast)
    /\ toastEvent' = "hide"
    /\ UNCHANGED <<cardVars, providerProps, toastState, notPageVars, homeEvent>>

\* setNewLimit: typing in the input renders Home again
setNewLimit ==
    /\ toast.alive
    /\ toast' = RenderLegacy(legacyToast, toast)
    /\ toastEvent' = "render"
    /\ UNCHANGED <<cardVars, providerProps, toastState, notPageVars, pageVars>>

\* time passes on the page, up to the next timer that is due; the time since
\* the toast was hidden is counted up to twice ANIM_DURATION
Elapses(ms) ==
    /\ toast.alive
    /\ PendingTimers # {}
    /\ Min(PendingTimers) > 0
    /\ LET d == IF ms < Min(PendingTimers) THEN ms ELSE Min(PendingTimers)
       IN  /\ toast' = [toast EXCEPT
                          !.autoHideTimer = IF @ = NoTimer THEN @ ELSE @ - d,
                          !.unmountTimer = IF @ = NoTimer THEN @ ELSE @ - d]
           /\ sinceHidden' =
                  IF legacyToast.isVisible THEN sinceHidden
                  ELSE IF sinceHidden + d > 2 * ANIM_DURATION
                  THEN 2 * ANIM_DURATION ELSE sinceHidden + d
    /\ toastEvent' = "advance"
    /\ UNCHANGED <<cardVars, providerProps, toastState, notPageVars, homeEvent,
                   legacyToast>>

\* the auto-hide timer is due: onClose() is the hideToast of the render
\* that set it
AutoHideCloses ==
    /\ toast.alive
    /\ toast.autoHideTimer = 0
    /\ SetHidden
    /\ toast' = RenderLegacy(legacyToast', [toast EXCEPT !.autoHideTimer = NoTimer])
    /\ toastEvent' = "autoHide"
    /\ UNCHANGED <<cardVars, providerProps, toastState, notPageVars, homeEvent>>

\* the unmount timer is due: setMounted(false)
UnmountFires ==
    /\ toast.alive
    /\ toast.unmountTimer = 0
    /\ toast' = CommitToast([toast EXCEPT !.unmountTimer = NoTimer,
                                          !.mounted = FALSE])
    /\ toastEvent' = "unmount"
    /\ UNCHANGED <<cardVars, providerProps, toastState, notPageVars, pageVars>>

NextLegacy ==
    \/ MountPage
    \/ \E m \in {"Novo limite"} : showToast(m, "success")
    \/ hideToast
    \/ setNewLimit
    \/ \E ms \in {TimeStep, ANIM_DURATION, Tick} : Elapses(ms)
    \/ AutoHideCloses
    \/ UnmountFires

\* the Home page's call of useCardLimit
HomeOptions ==
    [initialUsedAmount |-> {Reais(DEFAULT_USED)}, maxLimit |-> {Reais(DEFAULT_MAX)}]

\* _app's ToastProvider, given no props
AppProviderProps ==
    [defaultPosition |-> "top", defaultDuration |-> DEFAULT_DURATION]

ProviderProps ==
    [defaultPosition : Positions, defaultDuration : ProviderDurations]

\* a component that calls useFAQs() with no options
DefaultCaller == [hook |-> "useFAQs", identity |-> "perRender", immediate |-> TRUE]

\* the hooks of the components outside the part under study
InitHooks ==
    /\ InitAsync(DefaultCaller) /\ InitDebounce(SEARCH_DELAY) /\ InitStorage({1})
    /\ InitPage

\* the card-limit hook under any options, beside the application's toast
\* provider and API server
CardInit ==
    \E opts \in HookOptions :
        InitCard(opts) /\ InitToast(AppProviderProps) /\ InitFaq("production")
        /\ InitHooks

SpecCard == CardInit /\ [][NextCard]_vars

\* the global toast under any provider props, beside the Home page's hook
ToastInit ==
    \E props \in ProviderProps :
        InitCard(HomeOptions) /\ InitToast(props) /\ InitFaq("production")
        /\ InitHooks

\* the Home page under _app's providers
HomeInit ==
    InitCard(HomeOptions) /\ InitToast(AppProviderProps) /\ InitFaq("production")
    /\ InitHooks

SpecHome == HomeInit /\ [][NextHome]_vars

\* the first Home page before its first render
LegacyInit ==
    InitCard(HomeOptions) /\ InitToast(AppProviderProps) /\ InitFaq("production")
    /\ InitHooks

SpecLegacy == LegacyInit /\ [][NextLegacy]_vars

SpecToast == ToastInit /\ [][NextToast]_vars

\* time passes while a timer is pending, and a timer that is due runs
SpecToastFair ==
    /\ SpecToast
    /\ WF_vars(\E ms \in {ANIM_DURATION, Tick} : Advance(ms))
    /\ WF_vars(AutoHideFires)

\* the FAQ API in either environment
FaqInit ==
    \E env \in {"production", "development"} :
        InitCard(HomeOptions) /\ InitToast(AppProviderProps) /\ InitFaq(env)
        /\ InitHooks

SpecFaq == FaqInit /\ [][NextFaq]_vars

\* a component that calls useAsync or useFAQs, in each way of calling it
AsyncInit ==
    \E caller \in AsyncCallers :
        /\ InitCard(HomeOptions) /\ InitToast(AppProviderProps)
        /\ InitFaq("production") /\ InitAsync(caller)
        /\ InitDebounce(SEARCH_DELAY) /\ InitStorage({1}) /\ InitPage

SpecAsync == AsyncInit /\ [][NextAsync]_vars

\* a component that calls useDebounce with either delay
DebounceInit ==
    \E ms \in Delays :
        /\ InitCard(HomeOptions) /\ InitToast(AppProviderProps)
        /\ InitFaq("production") /\ InitAsync(DefaultCaller)
        /\ InitDebounce(ms) /\ InitStorage({1}) /\ InitPage

SpecDebounce == DebounceInit /\ [][NextDebounce]_vars

\* the component mounts, time passes while a timer is pending, and a timer
\* that is due runs
SpecDebounceFair ==
    /\ SpecDebounce
    /\ WF_vars(MountDebounce)
    /\ WF_vars(Elapse)
    /\ WF_vars(TimerFires)

\* the app open in one tab
FavoritesInit ==
    /\ InitCard(HomeOptions) /\ InitToast(AppProviderProps)
    /\ InitFaq("production") /\ InitAsync(DefaultCaller)
    /\ InitDebounce(SEARCH_DELAY) /\ InitStorage({1}) /\ InitPage

SpecFavorites == FavoritesInit /\ [][NextFavorites]_vars

\* the app open in two tabs of one browser
TabsInit ==
    /\ InitCard(HomeOptions) /\ InitToast(AppProviderProps)
    /\ InitFaq("production") /\ InitAsync(DefaultCaller)
    /\ InitDebounce(SEARCH_DELAY) /\ InitStorage(Tabs) /\ InitPage

SpecTabs == TabsInit /\ [][NextTabs]_vars

Init ==
    \/ CardInit \/ ToastInit \/ FaqInit \/ AsyncInit \/ DebounceInit
    \/ FavoritesInit \/ TabsInit \/ HomeInit \/ LegacyInit

Next ==
    \/ NextCard \/ NextToast \/ NextFaq \/ NextAsync \/ NextDebounce
    \/ NextFavorites \/ NextTabs \/ NextHome \/ NextLegacy

Spec == Init /\ [][Next]_vars

----------------------------------------------------------------------------
(* Properties of the card-limit validator and hook *)

\* the amounts the validator is probed with: Amounts and the neighbours of
\* the record's two bounds
ProbeAmounts(limit) ==
    Amounts \cup {Cents(limit.usedAmount.v + d) : d \in -1..1}
            \cup {Cents(limit.maxAllowedLimit.v + d) : d \in -1..1}

InRange(limit, A) == Le(limit.usedAmount, A) /\ Le(A, limit.maxAllowedLimit)

\* C1: for every limit record and every amount A with
\* usedAmount <= A <= maxAllowedLimit, validateLimit(limit, A) is null.
C1_InRangeIsValid ==
    \A A \in ProbeAmounts(state.limit) :
        InRange(state.limit, A) => validateLimit(state.limit, A) = Null

C1_Witness ==
    /\ lastAction.type = "COMMIT_CHANGE"
    /\ \E A \in ProbeAmounts(state.limit) :
        /\ Lt(state.limit.usedAmount, A)
        /\ Lt(A, state.limit.maxAllowedLimit)
        /\ validateLimit(state.limit, A) = Null
    /\ validateLimit(state.limit, state.limit.usedAmount) = Null
    /\ validateLimit(state.limit, state.limit.maxAllowedLimit) = Null

\* C2: for every limit record and every numeric amount A < usedAmount,
\* validateLimit(limit, A) is the below-minimum message naming the used amount.
C2_BelowUsedIsBelowMinimum ==
    \A A \in ProbeAmounts(state.limit) :
        Lt(A, state.limit.usedAmount) =>
            validateLimit(state.limit, A) = BelowMinimum(state.limit.usedAmount)

C2_Witness ==
    \E A \in ProbeAmounts(state.limit) :
        /\ Lt(A, state.limit.usedAmount)
        /\ Gt(A, state.limit.maxAllowedLimit)
        /\ validateLimit(state.limit, A) = BelowMinimum(state.limit.usedAmount)

\* C3 as stated: for every record reachable through useCardLimit and every
\* numeric amount A > maxAllowedLimit, validateLimit(limit, A) is the
\* above-maximum message.
C3_AboveMaxIsAboveMaximum ==
    \A A \in ProbeAmounts(state.limit) :
        Gt(A, state.limit.maxAllowedLimit) =>
            validateLimit(state.limit, A) = AboveMaximum(state.limit.maxAllowedLimit)

\* C3 amended: for every record reachable through useCardLimit and every
\* numeric amount A with A > maxAllowedLimit and A >= usedAmount,
\* validateLimit(limit, A) is the above-maximum message.
C3_AboveMaxNotBelowUsed ==
    \A A \in ProbeAmounts(state.limit) :
        (Gt(A, state.limit.maxAllowedLimit) /\ Ge(A, state.limit.usedAmount)) =>
            validateLimit(state.limit, A) = AboveMaximum(state.limit.maxAllowedLimit)

C3_Witness ==
    /\ options.maxLimit # {}
    /\ \E A \in ProbeAmounts(state.limit) :
        /\ Gt(A, state.limit.maxAllowedLimit)
        /\ Ge(A, state.limit.usedAmount)
        /\ Lt(A, Reais(DEFAULT_MAX))
        /\ validateLimit(state.limit, A) = AboveMaximum(state.limit.maxAllowedLimit)

\* C4: in every reachable state of useCardLimit the limit record satisfies
\* availableAmount = currentLimit - usedAmount.
C4_AvailableIsLimitMinusUsed ==
    state.limit.availableAmount =
        Sub(state.limit.currentLimit, state.limit.usedAmount)

C4_Witness ==
    /\ lastAction.type = "COMMIT_CHANGE"
    /\ ~IsNaN(state.limit.currentLimit)
    /\ state.limit.currentLimit # state.limit.usedAmount
    /\ state.limit.availableAmount # Cents(0)

\* C5: every new limit stored by the hook lies within
\* [minAllowedLimit, maxAllowedLimit]; stated for the records whose range
\* holds an amount at all.
C5_StoredLimitInRange ==
    (/\ lastAction.type = "COMMIT_CHANGE"
     /\ Le(state.limit.minAllowedLimit, state.limit.maxAllowedLimit)) =>
        /\ Le(state.limit.minAllowedLimit, state.limit.currentLimit)
        /\ Le(state.limit.currentLimit, state.limit.maxAllowedLimit)

\* C6: canUpdateTo(limit, A) is true exactly when validateLimit(limit, A) is
\* null, for every amount A, NaN included; when it is false the message is
\* one of the three.
C6_ValidityAgreesWithMessage ==
    \A A \in ProbeAmounts(state.limit) :
        /\ canUpdateTo(state.limit, A) <=> (validateLimit(state.limit, A) = Null)
        /\ ~canUpdateTo(state.limit, A) =>
              validateLimit(state.limit, A) \in
                  {NonNumeric, BelowMinimum(state.limit.usedAmount),
                   AboveMaximum(state.limit.maxAllowedLimit)}

C6_Witness ==
    /\ canUpdateTo(state.limit, state.limit.minAllowedLimit)
    /\ canUpdateTo(state.limit, state.limit.maxAllowedLimit)
    /\ validateLimit(state.limit, NaN) = NonNumeric
    /\ \E A, B \in ProbeAmounts(state.limit) :
        /\ validateLimit(state.limit, A) = BelowMinimum(state.limit.usedAmount)
        /\ validateLimit(state.limit, B) = AboveMaximum(state.limit.maxAllowedLimit)

\* C7: after setInputValue(s), canSave is true exactly when
\* usedAmount <= digitsToReais(digits of s) <= maxAllowedLimit, and
\* validationError is null exactly when canSave is true; a value below the
\* used amount gives the below-minimum message.
C7_CanSaveAfterSetInput ==
    lastAction.type = "SET_INPUT" =>
        LET value == digitsToReais(extractDigits(lastAction.text))
        IN  /\ canSave <=> InRange(state.limit, value)
            /\ (state.validationError = Null) <=> canSave
            /\ Lt(value, state.limit.usedAmount) =>
                  state.validationError = BelowMinimum(state.limit.usedAmount)

C7_Witness ==
    /\ lastAction.type = "SET_INPUT"
    /\ lastAction.text # state.inputValue
    /\ canSave
    /\ state.validationError = Null
    /\ Gt(state.numericValue, state.limit.usedAmount)

\* C8: reset() restores the initial input: inputValue = String(usedAmount * 100),
\* numericValue = usedAmount, isDirty = false, validationError = null, and the
\* limit record is left unchanged.
C8_ResetRestoresInitialInput ==
    [][lastAction'.type = "RESET" =>
          /\ state'.inputValue = StringOf(state.limit.usedAmount.v)
          /\ state'.inputValue = initialState(options).inputValue
          /\ state'.numericValue = state.limit.usedAmount
          /\ state'.isDirty = FALSE
          /\ state'.validationError = Null
          /\ state'.limit = state.limit]_vars

C8_Witness ==
    /\ lastAction.type = "RESET"
    /\ state.limit.currentLimit # state.limit.usedAmount
    /\ state.inputValue = initialState(options).inputValue

----------------------------------------------------------------------------
(* Properties of the global toast *)

\* C9: whenever the global toast is visible with a positive duration, the
\* toast state returns to hidden: the auto-hide timer started by the Toast
\* component calls hide once the duration has elapsed.
C9_VisibleToastGetsHidden ==
    (toastState.status = "visible" /\ toastState.duration > 0)
        ~> (toastState.status = "hidden")

C9_Witness ==
    /\ toastEvent = "autoHide"
    /\ toastState = Hidden
    /\ toast = NoToast
    /\ providerProps.defaultDuration > 0

----------------------------------------------------------------------------
(* Properties of the FAQ API *)

\* C10: for any sequence of GET /api/faqs requests, the MOCK_FAQS array keeps
\* its contents and its element order.
C10_MockFaqsUnchanged == mockFaqs = [i \in 1..Len(FAQS) |-> i]

----------------------------------------------------------------------------
(* Properties of the FAQ data functions and of the two API routes *)

\* s holds q at some place, letter case set aside
ContainsIgnoringCase(s, q) ==
    \E i \in 0..(Len(s) - Len(q)) :
        \A k \in 1..Len(q) : LowerUnit(s[i + k]) = LowerUnit(q[k])

\* q occurs in the question, the answer or a tag of the FAQ
OccursIn(ref, q) ==
    \/ ContainsIgnoringCase(Faq(ref).question, q)
    \/ ContainsIgnoringCase(Faq(ref).answer, q)
    \/ \E t \in 1..Len(Faq(ref).tags) : ContainsIgnoringCase(Faq(ref).tags[t], q)

Range(s) == {s[i] : i \in 1..Len(s)}

\* for each search text, the FAQs whose question holds it once trimmed, and
\* the FAQs in which it occurs at all
QuestionHolds ==
    [q \in SearchTexts |->
        {ref \in 1..Len(FAQS) : ContainsIgnoringCase(FAQS[ref].question, trim(q))}]

Occurs == [q \in SearchTexts |-> {ref \in 1..Len(FAQS) : OccursIn(ref, trim(q))}]

\* C11: searchFAQs(q) returns every FAQ whose question holds the trimmed q,
\* letter case set aside, and returns the empty list when q occurs in no
\* question, answer or tag.
C11_SearchFindsQuestions ==
    \A q \in SearchTexts :
        LET found == searchFAQs(mockFaqs, q).items
        IN  /\ \A i \in 1..Len(mockFaqs) :
                   mockFaqs[i] \in QuestionHolds[q] => mockFaqs[i] \in Range(found)
            /\ (\A i \in 1..Len(mockFaqs) : mockFaqs[i] \notin Occurs[q])
                   => found = <<>>

\* a search in capitals has found the questions that hold it, and a search
\* for a text no FAQ holds has found nothing
C11_Witness ==
    /\ response.status = 200
    /\ response.request.route = "/api/faqs"
    /\ response.request.category = {}
    /\ \/ /\ response.request.search = {<<76, 73, 77, 73, 84, 69>>}
          /\ \E d \in response.body.data :
                 \E i \in 1..Len(d.items) :
                     ContainsIgnoringCase(Faq(d.items[i]).question,
                                          <<76, 73, 77, 73, 84, 69>>)
       \/ /\ response.request.search = {<<120, 121, 122>>}
          /\ \E d \in response.body.data : d.items = <<>>

\* C12: every response of the two routes is a well-formed envelope: success
\* with data and no error under status 200, or failure with an error
\* {code, message} and no data under a 4xx or 5xx status.
C12_EnvelopeWellFormed ==
    response # NoResponse =>
        \/ /\ response.body.success
           /\ Cardinality(response.body.data) = 1
           /\ response.body.error = {}
           /\ response.status = 200
        \/ /\ ~response.body.success
           /\ response.body.data = {}
           /\ Cardinality(response.body.error) = 1
           /\ \A e \in response.body.error : e.code # "" /\ e.message # <<>>
           /\ response.status >= 400 /\ response.status <= 599

\* an error envelope has been sent by the route of one FAQ
C12_Witness ==
    /\ response.request.route = "/api/faqs/[id]"
    /\ response.request.method = "GET"
    /\ ~response.body.success
    /\ response.body.error # {}

\* the FAQs of MOCK_FAQS with the id
FaqsWithId(id) == {ref \in Range(mockFaqs) : Faq(ref).id = id}

\* C13: GET /api/faqs/:id answers 404 NOT_FOUND exactly when no FAQ of
\* MOCK_FAQS has the id, and otherwise 200 with the one FAQ that has it.
C13_NotFoundExactlyWhenAbsent ==
    (/\ response.request.route = "/api/faqs/[id]"
     /\ response.request.method = "GET"
     /\ IsGiven(response.request.id, "")) =>
        LET id == OptionOr(response.request.id, "")
        IN  /\ (response.status = 404) <=> (FaqsWithId(id) = {})
            /\ response.status = 404 =>
                   \A e \in response.body.error : e.code = "NOT_FOUND"
            /\ response.status # 404 =>
                   /\ response.status = 200
                   /\ \E ref \in FaqsWithId(id) :
                          /\ FaqsWithId(id) = {ref}
                          /\ response.body.data = {ObjectData(ref)}

\* an id in capitals was answered 404 although faq-1 exists
C13_Witness ==
    /\ response.request.route = "/api/faqs/[id]"
    /\ response.request.method = "GET"
    /\ response.request.id = {"FAQ-1"}
    /\ response.status = 404

----------------------------------------------------------------------------
(* Properties of useAsync and useFAQs *)

\* the execution whose Result the state holds, 0 when it holds none
SettledFrom == CHOOSE n \in asyncState.data \cup asyncState.error \cup {0} :
                   asyncState.data \cup asyncState.error \subseteq {n}

\* C14: the settled state always comes from the most recent execute: the
\* completion of an earlier call changes nothing, before or after the
\* later call completes.
C14_SettledFromLatestExecute ==
    /\ [](asyncState.status \in {"success", "error"}
              => SettledFrom = executionCountRef)
    /\ [][(asyncEvent'.op = "settle" /\ asyncEvent'.execution # executionCountRef)
              => asyncState' = asyncState]_vars

\* the later call has completed and set the state while the earlier one
\* is still pending
C14_Witness ==
    /\ asyncState.status = "success"
    /\ executionCountRef >= 2
    /\ SettledFrom = executionCountRef
    /\ \E n \in inFlight : n < executionCountRef

\* C15: after the component unmounts while an execution is pending, the
\* completion of that execution (success, Result error or exception)
\* updates no state.
C15_NoUpdateAfterUnmount ==
    [][(asyncEvent'.op = "settle" /\ ~isMountedRef)
           => asyncState' = asyncState /\ renderPending' = renderPending]_vars

\* the most recent execution completed after the unmount and the state is
\* still loading
C15_Witness ==
    /\ asyncPhase = "unmounted"
    /\ asyncEvent.op = "settle"
    /\ asyncEvent.execution = executionCountRef
    /\ asyncState = Loading

\* C20: a component that calls useFAQs with autoFetch fetches on mount, on
\* new filters and on refetch only: a render that brings no new filters
\* does not call execute again.
C20_RenderDoesNotRefetch ==
    [][(/\ asyncCaller.hook = "useFAQs"
        /\ asyncCaller.immediate
        /\ executionCountRef' > executionCountRef)
           => \/ asyncEvent'.op \in {"mount", "execute"}
              \/ asyncEvent'.op = "render" /\ asyncEvent'.filtersChanged]_vars

----------------------------------------------------------------------------
(* Properties of useDebounce *)

\* C16: the returned value changes to v only after the input has held v
\* for the delay, at most one timer is pending, and once the input stops
\* changing the returned value becomes equal to it.
C16_DebouncedFollowsInput ==
    /\ [](Cardinality(timers) <= 1)
    /\ [][debouncedValue' # debouncedValue
              => debouncedValue' = localValue /\ heldFor >= delay]_vars
    /\ <>[](debouncePhase = "mounted" => debouncedValue = localValue)

\* after two changes of the input the hook returns the value typed last
C16_Witness ==
    /\ debouncePhase = "mounted"
    /\ changes >= 2
    /\ localValue = "re"
    /\ debouncedValue = "re"
    /\ timers = {}

----------------------------------------------------------------------------
(* Properties of useLocalStorage and FavoritesProvider *)

\* C17: the setter takes an updater as useState does: each updater is
\* applied to the result of the update before it, also when several calls
\* come before the tab renders, and the state and the stored text hold
\* the result.
C17_UpdaterAppliedToLatest ==
    [][favEvent'.op \in {"addFavorite", "removeFavorite"} =>
          LET tab == favEvent'.tab
              composed ==
                  IF favEvent'.op = "addFavorite"
                  THEN AddUpdater(reactState[tab], favEvent'.id, favEvent'.now)
                  ELSE RemoveUpdater(reactState[tab], favEvent'.id)
          IN  /\ reactState'[tab] = composed
              /\ localStorage' = JSON_stringify(composed)]_vars

\* C18: once every storage event is delivered and rendered, each of the two
\* tabs holds the value stored in localStorage.
C18_TabsEqualStorage ==
    (/\ openTabs = Tabs
     /\ \A tab \in Tabs : storageEvents[tab] = <<>>
     /\ \A tab \in Tabs : reactState[tab] = storedValue[tab])
        => \A tab \in Tabs : storedValue[tab] = ReadStorage(localStorage)

NoDuplicateIds(items) ==
    \A i, j \in 1..Len(items) : items[i].id = items[j].id => i = j

AskedFor(req) ==
    {ref \in 1..Len(FAQS) :
        /\ IsGiven(req.search, <<>>) => \E q \in req.search : ref \in Occurs[q]
        /\ IsGiven(req.category, "") =>
               FAQS[ref].category = OptionOr(req.category, "")}

\* the order sortBy asks for; any other sortBy asks for none
InOrder(items, sortBy) ==
    \A i, j \in 1..Len(items) :
        i < j =>
            CASE sortBy = "helpful" ->
                     Faq(items[i]).helpfulCount >= Faq(items[j]).helpfulCount
              [] sortBy = "recent" ->
                     Faq(items[i]).updatedAt >= Faq(items[j]).updatedAt
              [] sortBy = "alphabetical" ->
                     localeCompare(Faq(items[i]).question, Faq(items[j]).question) <= 0
              [] OTHER -> TRUE

\* C21: a 200 response of GET /api/faqs carries exactly the FAQs that match
\* the search text and belong to the category, each once, in the order of
\* sortBy (helpful when absent), and meta.total is their number.
C21_ListIsFilteredAndSorted ==
    (response.status = 200 /\ response.request.route = "/api/faqs") =>
        \A d \in response.body.data :
            /\ Range(d.items) = AskedFor(response.request)
            /\ Len(d.items) = Cardinality(AskedFor(response.request))
            /\ InOrder(d.items, OptionOr(response.request.sortBy, "helpful"))
            /\ \A m \in response.body.meta : m.total = {Len(d.items)}

----------------------------------------------------------------------------
(* Properties of the Home page *)

\* C22: on the Home page a Save while canSave holds commits numericValue
\* (currentLimit = numericValue, availableAmount = numericValue - usedAmount)
\* and leaves canSave false until the next input; a Save while canSave is
\* false changes neither the hook's state nor the toast; so the limit is
\* always within [minAllowedLimit, maxAllowedLimit].
C22_SaveCommitsOnlyWhenCanSave ==
    /\ [](/\ Ge(state.limit.currentLimit, state.limit.minAllowedLimit)
          /\ Le(state.limit.currentLimit, state.limit.maxAllowedLimit)
          /\ canSave => homeEvent.op = "input")
    /\ [][(homeEvent' # homeEvent /\ homeEvent'.op = "save") =>
              IF canSave
              THEN /\ state'.limit.currentLimit = state.numericValue
                   /\ state'.numericValue = state.numericValue
                   /\ state'.limit.availableAmount =
                          Sub(state.numericValue, state.limit.usedAmount)
                   /\ ~state'.isDirty
              ELSE UNCHANGED <<state, lastAction, toastState, toast>>]_vars

\* a limit inside the range was committed, and a later Save of an amount
\* over the maximum was refused
C22_Witness ==
    /\ homeEvent.op = "save"
    /\ state.limit.currentLimit = Cents(Reais(DEFAULT_USED).v + 50055)
    /\ state.limit.availableAmount = Cents(50055)
    /\ state.numericValue = Cents(Reais(DEFAULT_MAX).v + 1)
    /\ state.isDirty
    /\ ~canSave

----------------------------------------------------------------------------
(* Properties of the toast's timers *)

\* C24: every call of show (or success, error, warning, info), also one made
\* while a toast is visible, leaves the auto-hide timer a full duration from
\* that call, so that the toast it shows stays for at least duration ms
\* unless hide is called.
C24_TimerCountsFromLastShow ==
    [][toastEvent' = "show" /\ toastState'.duration > 0
           => toast'.autoHideTimer = toastState'.duration]_vars

\* while the toast is hidden and still mounted it is in the exiting phase
\* and its unmount is due ANIM_DURATION after isVisible turned false
ExitIsTimed ==
    (toast.alive /\ ~toast.props.isVisible /\ toast.mounted) =>
        /\ toast.exiting
        /\ toast.unmountTimer = ANIM_DURATION - sinceHidden

\* while the toast is visible no unmount is pending, and no timer is left
\* once the toast is unmounted
TimersAreCleared ==
    /\ (toast.alive /\ toast.props.isVisible) =>
           /\ toast.mounted /\ ~toast.exiting
           /\ toast.unmountTimer = NoTimer
           /\ toast.autoHideTimer # NoTimer
    /\ ~toast.mounted => PendingTimers = {}

\* isVisible turns true: the auto-hide timer starts anew
ShowRestartsTimer ==
    (toast.alive /\ ~legacyToast.isVisible /\ legacyToast'.isVisible) =>
        toast'.autoHideTimer = toast'.props.duration

\* C23: when isVisible turns false while the Toast is mounted, the Toast is
\* exiting and is unmounted ANIM_DURATION (320 ms) after that; when isVisible
\* turns true again first, the unmount is cancelled, exiting is cleared and
\* a fresh auto-hide timer starts; no cleared timer fires and none is left
\* after the unmount.
C23_ExitProtocol ==
    /\ [](ExitIsTimed /\ TimersAreCleared)
    /\ [][ShowRestartsTimer]_vars

====
